---- MODULE Spec2Model ----
(***************************************************************************)
(* Model of the ephileo agent core: the tool registry with permission     *)
(* gating (tools/registry.ts), the turn loop (agent/loop.ts) and the      *)
(* ask / REPL callers (cli/ask.ts, cli/index.ts).                          *)
(*                                                                         *)
(* Strings are modelled as tuples of string pieces so that template        *)
(* literals become concatenations: `Error: unknown tool '${name}'` is      *)
(* <<"Error: unknown tool '", name, "'">>.  The empty string is <<>>.      *)
(***************************************************************************)
EXTENDS Integers, Sequences, FiniteSets, TLC

\* ---------------------------------------------------------------- bounds
MaxRuns == 2          \* ask / runAgentLoop invocations in one session
MaxTurnsBound == 2    \* largest maxTurns argument tried
MaxCalls == 2         \* most tool calls carried by one model response
MaxChats == 2         \* model calls made in one session
MaxRequested == 2     \* tool calls requested by the model in one session
MaxLines == 3         \* lines in one response body
MaxItems == 4         \* characters and markers in one streamed content
MaxRegisters == 3     \* register calls on one registry
MaxLen == 4           \* characters of a history entry / of a file content
MaxPattern == 2       \* characters of old_string and of new_string

\* ------------------------------------------------------------- constants
Undefined == "undefined"
Null == <<"<null>">>

DENIAL_MESSAGE ==
  <<"User declined to execute this tool. Adjust your approach or ask the user for guidance.">>

MAX_TURNS_RESPONSE == <<"(max turns reached - stopped for safety)">>
NO_RESPONSE == <<"(no response)">>
CANCELLED_RESPONSE == <<"[Cancelled]">>
INTERRUPTED_SUFFIX == <<"\n\n[Response interrupted by user]">>
ABORT_DEFAULT_MESSAGE == <<"Operation cancelled by user">>

PermissionLevel == {"write-only", "read-and-write", "auto-accept"}
ConfirmationGroup == {"read", "write", "none"}

\* JavaScript truthiness of a string-or-null value, and the `a || b` idiom.
Truthy(s) == s # Null /\ s # <<>>

\* Variant of OrElse that falls back on null only (the `a ?? b` idiom).
OrElse_NullOnly(s, d) == IF s # Null THEN s ELSE d

OrElse(s, d) == IF Truthy(s) THEN s ELSE d

\* ------------------------------------------------------------ registry
\* ToolRegistration: the two optional gating fields of a registration.
ToolRegistration ==
  [confirmationGroup : ConfirmationGroup \cup {Undefined},
   requiresConfirmation : {"true", "false", Undefined}]

Reg(g, rc) == [confirmationGroup |-> g, requiresConfirmation |-> rc]

\* The tools registered at start-up: one per gating shape.
RegisteredTools ==
  [write_file    |-> Reg(Undefined, "true"),
   read_file     |-> Reg(Undefined, Undefined),
   edit_file     |-> Reg("write", Undefined),
   shell         |-> Reg("read", Undefined),
   save_learning |-> Reg("none", "true"),
   list_directory|-> Reg(Undefined, "false")]

\* Names a model response may ask for: registered ones and an unknown one.
UnknownTool == "nonexistent"
CallNames == {"write_file", "shell", UnknownTool}

\* Variant of EffectiveGroup that ignores the legacy requiresConfirmation flag.
EffectiveGroup_NoLegacy(tool) ==
  IF tool.confirmationGroup # Undefined THEN tool.confirmationGroup ELSE "none"

\* tool.confirmationGroup ?? (tool.requiresConfirmation ? "write" : "none")
EffectiveGroup(tool) ==
  IF tool.confirmationGroup # Undefined
    THEN tool.confirmationGroup
    ELSE IF tool.requiresConfirmation = "true" THEN "write" ELSE "none"

\* Variant of shouldConfirm that treats the write group like the read group.
shouldConfirm_WriteAsRead(tool, level) ==
  IF level = "auto-accept" THEN FALSE
  ELSE EffectiveGroup(tool) # "none" /\ level = "read-and-write"

shouldConfirm(tool, level) ==
  IF level = "auto-accept" THEN FALSE
  ELSE LET group == EffectiveGroup(tool) IN
       IF group = "none" THEN FALSE
       ELSE IF group = "write" THEN TRUE
       ELSE level = "read-and-write"

\* ------------------------------------------------------------- errors
\* UserAbortError(message, partialContent) and ordinary Error(message).
UserAbortError(msg, partial) ==
  [kind |-> "UserAbortError", message |-> msg, partialContent |-> partial]
Error(msg) == [kind |-> "Error", message |-> msg, partialContent |-> <<>>]
NoError == [kind |-> "none", message |-> <<>>, partialContent |-> <<>>]

IsAbort(err) == err.kind = "UserAbortError"

\* Errors the environment (model call, callback, handler) may raise.
ChatErrors ==
  {UserAbortError(<<"cancelled during chat">>, <<>>),
   UserAbortError(ABORT_DEFAULT_MESSAGE, <<"partial">>),
   Error(<<"LLM request failed (500): body">>)}
CallbackErrors ==
  {UserAbortError(<<"user cancelled">>, <<>>), Error(<<"callback exploded">>)}
HandlerErrors ==
  {UserAbortError(<<"user cancelled">>, <<>>), Error(<<"handler exploded">>)}
LogErrors == {Error(<<"log exploded">>)}

\* The catch blocks of execute: rethrow a cancellation, else an error string.
\* Result of a step of execute: either a thrown error or a returned string.
Thrown(err) == [thrown |-> TRUE, err |-> err, value |-> <<>>]
Returned(str) == [thrown |-> FALSE, err |-> NoError, value |-> str]

\* Variant of CatchConfirmation that lets every callback failure escape.
CatchConfirmation_Rethrow(name, err) == Thrown(err)

CatchConfirmation(name, err) ==
  IF IsAbort(err) THEN Thrown(err)
  ELSE Returned(<<"Error during confirmation for ", name, ": ">> \o err.message)

\* Variant of CatchHandler that turns every failure into an error string.
CatchHandler_Swallow(name, err) ==
  Returned(<<"Error executing ", name, ": ">> \o err.message)

CatchHandler(name, err) ==
  IF IsAbort(err) THEN Thrown(err)
  ELSE Returned(<<"Error executing ", name, ": ">> \o err.message)

\* Variant of UnknownToolMessage that does not name the tool.
UnknownToolMessage_Anonymous(name) == <<"Error: unknown tool">>

UnknownToolMessage(name) == <<"Error: unknown tool '", name, "'">>

\* ------------------------------------------------------------- execute
\* One ToolRegistry.execute call: the name, the arguments it was given (passed
\* on to the callback and the handler as they are), whether it is registered, the
\* permission level and callback read by the call, whether the callback was
\* consulted, the key it read from the user ("-" for none), and its verdict, how often the handler was invoked, the error
\* raised inside the call, the result, and where the call is suspended.
NoExec ==
  [name |-> "-", args |-> <<>>, known |-> FALSE, level |-> "-", callback |-> "-",
   consulted |-> FALSE, key |-> "-", verdict |-> "none", handlerCalls |-> 0,
   raised |-> NoError, res |-> Returned(<<>>), await |-> "none"]

\* Variant of ExecuteStart that gates by the level the registry was built
\* with instead of the level in force.
ExecuteStart_StaleLevel(name, args, registry, level, callback) ==
  LET known == name \in DOMAIN registry
      e0 == [NoExec EXCEPT !.name = name, !.args = args, !.known = known,
                           !.level = "write-only", !.callback = callback]
  IN IF ~known
       THEN [e0 EXCEPT !.res = Returned(UnknownToolMessage(name))]
     ELSE IF shouldConfirm(registry[name], "write-only") /\ callback # Undefined
       THEN [e0 EXCEPT !.consulted = TRUE, !.await = "confirm"]
     ELSE [e0 EXCEPT !.handlerCalls = 1, !.await = "handler"]

\* execute up to its first await: unknown name, callback, or handler.
ExecuteStart(name, args, registry, level, callback) ==
  LET known == name \in DOMAIN registry
      e0 == [NoExec EXCEPT !.name = name, !.args = args, !.known = known,
                           !.level = level, !.callback = callback]
  IN IF ~known
       THEN [e0 EXCEPT !.res = Returned(UnknownToolMessage(name))]
     ELSE IF shouldConfirm(registry[name], level) /\ callback # Undefined
       THEN [e0 EXCEPT !.consulted = TRUE, !.await = "confirm"]
     ELSE [e0 EXCEPT !.handlerCalls = 1, !.await = "handler"]

\* Variant of ConfirmationStep that records the denial but runs the handler.
ConfirmationStep_RunsAnyway(e, approved) ==
  [e EXCEPT !.verdict = IF approved THEN "approved" ELSE "denied",
            !.handlerCalls = @ + 1, !.await = "handler"]

\* The callback resolved: a denial returns the fixed string, an approval
\* goes on to the handler.
ConfirmationStep(e, approved) ==
  IF ~approved
    THEN [e EXCEPT !.verdict = "denied", !.res = Returned(DENIAL_MESSAGE),
                   !.await = "none"]
    ELSE [e EXCEPT !.verdict = "approved", !.handlerCalls = @ + 1,
                   !.await = "handler"]

\* The callback rejected with err.
ConfirmationThrew(e, err) ==
  [e EXCEPT !.verdict = "threw", !.raised = err,
            !.res = CatchConfirmation(e.name, err), !.await = "none"]

\* The handler resolved with value / rejected with err.
HandlerReturned(e, value) ==
  [e EXCEPT !.res = Returned(value), !.await = "none"]
HandlerThrew(e, err) ==
  [e EXCEPT !.raised = err, !.res = CatchHandler(e.name, err), !.await = "none"]

\* ------------------------------------------------------------ messages
NoCalls == <<>>
NoId == 0

Message(role, content, calls, id) ==
  [role |-> role, content |-> content, tool_calls |-> calls, tool_call_id |-> id]

SystemMessage == Message("system", <<"system prompt">>, NoCalls, NoId)

\* buildSystemPrompt(loadMemory(dir)): the prompt the session began with,
\* or one built after the memory files changed.
FreshPrompts ==
  {SystemMessage, Message("system", <<"system prompt", "memory">>, NoCalls, NoId)}

\* Variant of Cleared that empties the conversation.
Cleared_Empty(msgs) == <<>>

\* /clear: conversationMessages.length = 1
Cleared(msgs) == SubSeq(msgs, 1, 1)
UserMessage == Message("user", <<"input">>, NoCalls, NoId)

\* The id the model gives to the i-th tool call of its n-th response: ids
\* are opaque and never repeated by the model within a session.
CallId(n, i) == n * (MaxCalls + 2) + i

\* Sequences of at most n tool calls.
RECURSIVE SeqsUpTo(_, _)
SeqsUpTo(S, n) ==
  IF n = 0 THEN {<<>>}
  ELSE LET shorter == SeqsUpTo(S, n - 1) IN
       shorter \cup {Append(s, x) : s \in {t \in shorter : Len(t) = n - 1}, x \in S}

\* LLMResponse: content (string or null) and ordered tool calls; the n-th
\* response of the session asks for the tools named in `names`.  A final
\* answer has null, empty or text content, a response with tool calls null
\* content.
RequestedNames == SeqsUpTo(CallNames, MaxCalls)
ResponseContents(names) ==
  IF names = <<>> THEN {Null, <<>>, <<"answer">>} ELSE {Null}

\* The value of `response` before the first model call of an invocation.
NoResponse == [content |-> Null, toolCalls |-> <<>>]

LLMResponse(n, content, names) ==
  [content |-> content,
   toolCalls |-> [i \in 1..Len(names) |->
                    [id |-> CallId(n, i), name |-> names[i], arguments |-> <<"{}">>]]]

Responses(n) ==
  UNION {{LLMResponse(n, c, names) : c \in ResponseContents(names)} :
           names \in RequestedNames}

\* The assistant message built from a response that carries tool calls.
AssistantMessage(resp) ==
  Message("assistant", OrElse(resp.content, <<>>),
          [i \in 1..Len(resp.toolCalls) |->
             [id |-> resp.toolCalls[i].id,
              name |-> resp.toolCalls[i].name,
              arguments |-> resp.toolCalls[i].arguments]],
          NoId)

\* Variant of ToolMessage that leaves out the call id.
ToolMessage_NoId(tc, result) == Message("tool", result, NoCalls, NoId)

ToolMessage(tc, result) == Message("tool", result, NoCalls, tc.id)

\* Variant of PushMessage that replaces the last message.
PushMessage_Overwrite(msgs, m) ==
  IF Len(msgs) > 1 THEN [msgs EXCEPT ![Len(msgs)] = m] ELSE Append(msgs, m)

\* messages.push(m)
PushMessage(msgs, m) == Append(msgs, m)

\* Variant of RecordTool that keeps each name once.
RecordTool_Once(used, name) ==
  IF \E i \in 1..Len(used) : used[i] = name THEN used ELSE Append(used, name)

\* toolsUsed.push(tc.name)
RecordTool(used, name) == Append(used, name)

\* Value a tool handler returns when it succeeds.
HandlerResult(name) == <<"result of ", name>>

\* ------------------------------------------------------------ outcomes
\* How an invocation ended: a returned AgentResult / AskResult, or a thrown
\* error together with the statement it came from.
NoOutcome ==
  [kind |-> "none", response |-> <<>>, turns |-> 0, toolsUsed |-> <<>>,
   err |-> NoError, origin |-> "-", cancelled |-> FALSE]
\* Variant of LoopReturn that counts the tool calls instead of the turns.
LoopReturn_CountsCalls(resp, turns, used) ==
  [kind |-> "return", response |-> resp, turns |-> Len(used), toolsUsed |-> used,
   err |-> NoError, origin |-> "-", cancelled |-> FALSE]

LoopReturn(resp, turns, used) ==
  [kind |-> "return", response |-> resp, turns |-> turns, toolsUsed |-> used,
   err |-> NoError, origin |-> "-", cancelled |-> FALSE]
LoopThrow(err, origin) ==
  [kind |-> "throw", response |-> <<>>, turns |-> 0, toolsUsed |-> <<>>,
   err |-> err, origin |-> origin, cancelled |-> FALSE]

\* Variant of AskOutcome that reports every error as a cancellation.
AskOutcome_CatchAll(out) ==
  IF out.kind = "return"
    THEN [out EXCEPT !.turns = 0, !.toolsUsed = <<>>]
    ELSE [kind |-> "return", response |-> CANCELLED_RESPONSE, turns |-> 0,
          toolsUsed |-> <<>>, err |-> NoError, origin |-> "-", cancelled |-> TRUE]

\* ask: the try/catch around runAgentLoop.
AskOutcome(out) ==
  IF out.kind = "return"
    THEN [out EXCEPT !.turns = 0, !.toolsUsed = <<>>]
  ELSE IF IsAbort(out.err)
    THEN [kind |-> "return", response |-> CANCELLED_RESPONSE, turns |-> 0,
          toolsUsed |-> <<>>, err |-> NoError, origin |-> "-", cancelled |-> TRUE]
  ELSE out

\* Variant of AskMessages that saves the partial text without the annotation.
AskMessages_Bare(out, msgs) ==
  IF out.kind = "throw" /\ IsAbort(out.err) /\ Truthy(out.err.partialContent)
    THEN Append(msgs, Message("assistant", out.err.partialContent, NoCalls, NoId))
    ELSE msgs

\* ask: messages after the catch block (partial content saved on abort).
AskMessages(out, msgs) ==
  IF out.kind = "throw" /\ IsAbort(out.err) /\ Truthy(out.err.partialContent)
    THEN Append(msgs, Message("assistant",
                              out.err.partialContent \o INTERRUPTED_SUFFIX,
                              NoCalls, NoId))
    ELSE msgs

\* ------------------------------------------------------ LLMClient.chat
\* Text handled by the client is a sequence of characters.
OPEN_TAG == <<"<", "t", "h", "i", "n", "k", ">">>
CLOSE_TAG == <<"<", "/", "t", "h", "i", "n", "k", ">">>
Whitespace == {" ", "\n"}

Min(S) == CHOOSE x \in S : \A y \in S : x <= y

\* buffer.indexOf(pat, from), with positions counted from 1 and 0 for -1.
IndexOf(buffer, pat, from) ==
  LET S == {i \in from..(Len(buffer) - Len(pat) + 1) :
              SubSeq(buffer, i, i + Len(pat) - 1) = pat}
  IN IF S = {} THEN 0 ELSE Min(S)

\* buffer.endsWith(suffix)
EndsWith(buffer, suffix) ==
  /\ Len(suffix) <= Len(buffer)
  /\ SubSeq(buffer, Len(buffer) - Len(suffix) + 1, Len(buffer)) = suffix

\* Variant of PartialLen that never holds a partial marker back.
PartialLen_None(buffer, marker) == 0

\* for (let i = 1; i < partialCheck.length; i++)
\*   if (buffer.endsWith(partialCheck.slice(0, i))): the first such i, else 0.
PartialLen(buffer, marker) ==
  LET S == {i \in 1..(Len(marker) - 1) : EndsWith(buffer, SubSeq(marker, 1, i))}
  IN IF S = {} THEN 0 ELSE Min(S)

\* What onToken has been given: the text flagged visible and the text flagged
\* reasoning, each concatenated in order of delivery, and how many inserted
\* "[thinking] " markers and closing "\n" tokens were delivered with them.
NoTokens == [visible |-> <<>>, reasoning |-> <<>>, opened |-> 0, closed |-> 0]

\* onToken(text, isThinking) for a piece of the content.
Emit(out, text, isThinking) ==
  IF isThinking THEN [out EXCEPT !.reasoning = @ \o text]
  ELSE [out EXCEPT !.visible = @ \o text]

\* processThinkBuffer(buffer, insideThink, onToken, update) from position pos:
\* the new insideThink, the remaining buffer and the tokens delivered.
RECURSIVE ThinkScan(_, _, _, _)
ThinkScan(buffer, pos, inside, out) ==
  IF pos > Len(buffer)
    THEN [inside |-> inside, remaining |-> <<>>, out |-> out]
  ELSE
    LET marker == IF inside THEN CLOSE_TAG ELSE OPEN_TAG
        idx == IndexOf(buffer, marker, pos)
    IN IF idx = 0
         THEN LET i == PartialLen(buffer, marker)
              IN [inside |-> inside,
                  remaining |-> SubSeq(buffer, Len(buffer) - i + 1, Len(buffer)),
                  out |-> Emit(out, SubSeq(buffer, pos, Len(buffer) - i), inside)]
         ELSE LET before == Emit(out, SubSeq(buffer, pos, idx - 1), inside)
              IN ThinkScan(buffer, idx + Len(marker), ~inside,
                           IF inside THEN [before EXCEPT !.closed = @ + 1]
                                     ELSE [before EXCEPT !.opened = @ + 1])

processThinkBuffer(buffer, insideThink, out) == ThinkScan(buffer, 1, insideThink, out)

\* What chat accumulates while it reads: whether an onToken callback was
\* supplied, and the locals of the read loop.
NoAccum == <<>>
ReadState(callback, content, reason, accum, inside, buffer, out) ==
  [onToken |-> callback,
   fullContent |-> content, finishReason |-> reason, toolCallAccum |-> accum,
   insideThink |-> inside, thinkTagBuffer |-> buffer, shown |-> out]

\* Variant of Accumulate that keeps the content only when it is displayed.
Accumulate_IfShown(st, text) ==
  IF st.onToken THEN [st EXCEPT !.fullContent = @ \o text] ELSE st

\* fullContent += delta.content
Accumulate(st, text) == [st EXCEPT !.fullContent = @ \o text]

\* if (delta.content) { fullContent += ...; thinkTagBuffer += ...;
\*                      processThinkBuffer(...) }
ContentDelta(st, text) ==
  IF text = <<>> THEN st
  ELSE IF ~st.onToken THEN Accumulate(st, text)
  ELSE LET r == processThinkBuffer(st.thinkTagBuffer \o text, st.insideThink, st.shown)
       IN [Accumulate(st, text) EXCEPT !.insideThink = r.inside,
                                       !.thinkTagBuffer = r.remaining,
                                       !.shown = r.out]

\* if (onToken && thinkTagBuffer) onToken(thinkTagBuffer, insideThink)
FlushThink(st) ==
  IF st.onToken /\ st.thinkTagBuffer # <<>>
    THEN [st EXCEPT !.shown = Emit(@, st.thinkTagBuffer, st.insideThink)]
    ELSE st

\* The bytes of a response body, cut no finer than these pieces: a newline,
\* the "data: " prefix, the "[DONE]" sentinel, text that is not JSON, other
\* text, and the JSON text of one stream record.
Piece(kind, delta, finish, content, calls) ==
  [kind |-> kind, delta |-> delta, finish |-> finish, content |-> content,
   calls |-> calls]
NL == Piece("nl", FALSE, "", <<>>, <<>>)
DATA_PREFIX == Piece("data: ", FALSE, "", <<>>, <<>>)
DONE == Piece("[DONE]", FALSE, "", <<>>, <<>>)
Garbage == Piece("{garbage", FALSE, "", <<>>, <<>>)
Json(delta, finish, content, calls) == Piece("json", delta, finish, content, calls)

\* One entry of delta.tool_calls: index (-1 when absent), id, name fragment
\* and arguments fragment ("" when absent).
CallDelta(index, id, name, arguments) ==
  [index |-> index, id |-> id, name |-> name, arguments |-> arguments]

\* The stream records the server may send.
StreamRecords ==
  {Json(TRUE, "", <<"a">>, <<>>),
   Json(TRUE, "", OPEN_TAG \o <<"r">>, <<>>),
   Json(TRUE, "", CLOSE_TAG \o <<" ">>, <<>>),
   Json(TRUE, "", <<>>, <<CallDelta(0, <<"c1">>, <<"shell">>, <<"{\"p\":">>)>>),
   Json(TRUE, "", <<>>, <<CallDelta(-1, <<>>, <<>>, <<"1}">>)>>),
   Json(TRUE, "tool_calls", <<>>, <<>>),
   Json(FALSE, "length", <<>>, <<>>)}

\* The lines of a body, without their newline: the records behind the
\* "data: " prefix, the sentinel, a payload that is not JSON, and a record
\* that lacks the prefix.
StreamLines ==
  {<<DATA_PREFIX, r>> : r \in StreamRecords}
    \cup {<<DATA_PREFIX, DONE>>, <<DATA_PREFIX, Garbage>>,
          <<Json(TRUE, "", <<"a">>, <<>>)>>}

\* The tool-call records the server may send: deltas for index 1 and index 0
\* in either order, a delta without index, fragments of a name and of the
\* arguments, a second id for an index, two entries in one delta.
CallRecords ==
  {Json(TRUE, "", <<>>, <<CallDelta(1, <<"c2">>, <<"read">>, <<"{\"p\":">>)>>),
   Json(TRUE, "", <<>>, <<CallDelta(0, <<"c1">>, <<"shell">>, <<>>)>>),
   Json(TRUE, "", <<>>, <<CallDelta(-1, <<>>, <<>>, <<"1}">>)>>),
   Json(TRUE, "", <<>>, <<CallDelta(1, <<>>, <<"_file">>, <<"1}">>)>>),
   Json(TRUE, "", <<>>, <<CallDelta(0, <<"c3">>, <<>>, <<"{\"p\":">>)>>),
   Json(TRUE, "tool_calls", <<>>, <<CallDelta(1, <<>>, <<>>, <<>>),
                                    CallDelta(0, <<>>, <<>>, <<>>)>>)}

CallLines == {<<DATA_PREFIX, r>> : r \in CallRecords}

\* Bodies of n lines out of `lines`, each ended by a newline.
RECURSIVE BodiesOver(_, _)
BodiesOver(lines, n) ==
  IF n = 0 THEN {<<>>}
  ELSE {b \o l \o <<NL>> : b \in BodiesOver(lines, n - 1), l \in lines}

\* Response bodies: at most MaxLines lines, the last one possibly cut off
\* before its newline.
AllBodies(lines) ==
  LET whole == UNION {BodiesOver(lines, n) : n \in 0..MaxLines}
  IN whole \cup {SubSeq(b, 1, Len(b) - 1) : b \in whole \ {<<>>}}

Bodies == AllBodies(StreamLines)

\* Response bodies made of tool-call records.
CallBodies == AllBodies(CallLines)

\* buffer.split("\n"): the pieces between newlines, at least one.
RECURSIVE Split(_)
Split(buffer) ==
  LET S == {i \in 1..Len(buffer) : buffer[i] = NL}
  IN IF S = {} THEN <<buffer>>
     ELSE <<SubSeq(buffer, 1, Min(S) - 1)>>
            \o Split(SubSeq(buffer, Min(S) + 1, Len(buffer)))

\* Variant of PendingLine that forgets the incomplete last line.
PendingLine_Dropped(lines) == <<>>

\* sseBuffer = lines.pop(): the incomplete last line stays in the buffer.
PendingLine(lines) == lines[Len(lines)]

\* The entry of toolCallAccum for idx after one tool-call delta.
AccumCall(accum, tc) ==
  LET idx == IF tc.index = -1 THEN 0 ELSE tc.index
      old == IF idx \in DOMAIN accum THEN accum[idx]
             ELSE [id |-> <<>>, name |-> <<>>, arguments |-> <<>>]
      new == [id |-> IF tc.id # <<>> THEN tc.id ELSE old.id,
              name |-> old.name \o tc.name,
              arguments |-> old.arguments \o tc.arguments]
  IN [i \in DOMAIN accum \cup {idx} |-> IF i = idx THEN new ELSE accum[i]]

RECURSIVE AccumCalls(_, _)
AccumCalls(accum, calls) ==
  IF calls = <<>> THEN accum
  ELSE AccumCalls(AccumCall(accum, Head(calls)), Tail(calls))

\* Variant of HasDelta that takes every parsed record to carry a delta.
HasDelta_Always(chunk) == TRUE

\* const delta = chunk.choices?.[0]?.delta; if (!delta) continue;
HasDelta(chunk) == chunk.delta

\* The body of `for (const line of lines)` for one line.
ProcessLine(st, line) ==
  IF Len(line) = 0 \/ line[1] # DATA_PREFIX THEN st
  ELSE LET data == Tail(line)
       IN IF data = <<DONE>> THEN st
          ELSE IF Len(data) # 1 \/ data[1].kind # "json" THEN st
          ELSE LET chunk == data[1]
               IN IF ~HasDelta(chunk) THEN st
                  ELSE LET s1 == IF chunk.finish # ""
                                   THEN [st EXCEPT !.finishReason = chunk.finish]
                                   ELSE st
                           s2 == ContentDelta(s1, chunk.content)
                       IN [s2 EXCEPT !.toolCallAccum = AccumCalls(@, chunk.calls)]

RECURSIVE ProcessLines(_, _)
ProcessLines(st, lines) ==
  IF lines = <<>> THEN st
  ELSE ProcessLines(ProcessLine(st, Head(lines)), Tail(lines))

\* content.trim()
RECURSIVE Trim(_)
Trim(text) ==
  IF text = <<>> THEN <<>>
  ELSE IF text[1] \in Whitespace THEN Trim(Tail(text))
  ELSE IF text[Len(text)] \in Whitespace THEN Trim(SubSeq(text, 1, Len(text) - 1))
  ELSE text

\* content.match(/<think>([\s\S]*?)<\/think>/): the span of the first match.
ThinkMatch(text) ==
  LET o == IndexOf(text, OPEN_TAG, 1)
      c == IF o = 0 THEN 0 ELSE IndexOf(text, CLOSE_TAG, o + Len(OPEN_TAG))
  IN [found |-> c # 0, open |-> o, close |-> c]

\* content.replace(/<think>[\s\S]*?<\/think>/g, "")
RECURSIVE StripThink(_)
StripThink(text) ==
  LET m == ThinkMatch(text)
  IN IF ~m.found THEN text
     ELSE SubSeq(text, 1, m.open - 1)
            \o StripThink(SubSeq(text, m.close + Len(CLOSE_TAG), Len(text)))

\* The arguments texts that are valid JSON.
ValidArguments == {<<"{\"p\":", "1}">>}

\* Variant of ParseArguments that delivers the accumulated text as it is.
ParseArguments_Raw(text) == text

\* JSON.parse(tc.arguments), or {} when it throws.
ParseArguments(text) == IF text \in ValidArguments THEN text ELSE <<"{}">>

\* Variant of NextIndex that takes the largest index first.
NextIndex_Largest(indexes) == CHOOSE x \in indexes : \A y \in indexes : x >= y

\* [...toolCallAccum.entries()].sort((a, b) => a[0] - b[0]): the entry that
\* comes first among those with the given indexes.
NextIndex(indexes) == Min(indexes)

\* The toolCalls list: the accumulated entries in ascending index order.
RECURSIVE CallsOf(_, _)
CallsOf(accum, indexes) ==
  IF indexes = {} THEN <<>>
  ELSE LET i == NextIndex(indexes)
       IN <<[id |-> accum[i].id, name |-> accum[i].name,
             arguments |-> ParseArguments(accum[i].arguments)]>>
            \o CallsOf(accum, indexes \ {i})

\* The LLMResponse chat builds when the stream has ended.
BuildResponse(st) ==
  LET m == ThinkMatch(st.fullContent)
      content == IF m.found THEN Trim(StripThink(st.fullContent)) ELSE st.fullContent
  IN [content |-> IF content = <<>> THEN Null ELSE content,
      thinking |-> IF m.found
                     THEN Trim(SubSeq(st.fullContent, m.open + Len(OPEN_TAG), m.close - 1))
                     ELSE Null,
      toolCalls |-> CallsOf(st.toolCallAccum, DOMAIN st.toolCallAccum),
      finishReason |-> st.finishReason]

\* How a chat call ended.
NoChatOutcome ==
  [kind |-> "none",
   response |-> [content |-> Null, thinking |-> Null, toolCalls |-> <<>>,
                 finishReason |-> ""],
   err |-> NoError]
ChatReturn(resp) == [kind |-> "return", response |-> resp, err |-> NoError]

\* The state of the read loop before the first chunk, with an onToken
\* callback (InitialRead) or as the caller chose (InitialReadOf).
InitialReadOf(callback) ==
  ReadState(callback, <<>>, "stop", NoAccum, FALSE, <<>>, NoTokens)
InitialRead == InitialReadOf(TRUE)

\* One pass of `while (true)` for a chunk: append it to sseBuffer, process
\* the complete lines, keep the incomplete last one.
ReadChunkStep(st, buffer, chunk) ==
  LET lines == Split(buffer \o chunk)
  IN [st |-> ProcessLines(st, SubSeq(lines, 1, Len(lines) - 1)),
      sseBuffer |-> PendingLine(lines)]

\* Streamed content: characters and whole markers, every marker pair well
\* formed (an opening marker, then text, then its closing marker).
ContentItems == {<<"a">>, <<"<">>, OPEN_TAG, CLOSE_TAG}

RECURSIVE WellFormed(_, _)
WellFormed(its, inside) ==
  IF its = <<>> THEN ~inside
  ELSE IF Head(its) = OPEN_TAG THEN ~inside /\ WellFormed(Tail(its), TRUE)
  ELSE IF Head(its) = CLOSE_TAG THEN inside /\ WellFormed(Tail(its), FALSE)
  ELSE WellFormed(Tail(its), inside)

Contents == {its \in SeqsUpTo(ContentItems, MaxItems) : WellFormed(its, FALSE)}

RECURSIVE Flatten(_)
Flatten(its) == IF its = <<>> THEN <<>> ELSE Head(its) \o Flatten(Tail(its))

\* -------------------------------------------- ToolRegistry: tools as a Map
\* Registrations differ in name, description and parameters.
ToolNames == {"alpha", "beta", "gamma"}
Registrations ==
  [name : ToolNames, description : {"d1", "d2"}, parameters : {"p1", "p2"}]

\* new Map(): keys in insertion order, and the value of each key.
EmptyMap == [order |-> <<>>, value |-> <<>>]

\* Variant of MapSet that moves a key that is set again to the end.
MapSet_MoveToEnd(map, key, val) ==
  LET kept == SelectSeq(map.order, LAMBDA k : k # key)
  IN [order |-> Append(kept, key),
      value |-> [k \in DOMAIN map.value \cup {key} |->
                   IF k = key THEN val ELSE map.value[k]]]

\* Map.prototype.set(key, val): a new key goes to the end of the order, a
\* key already present keeps its place and gets the new value.
MapSet(map, key, val) ==
  [order |-> IF key \in DOMAIN map.value THEN map.order ELSE Append(map.order, key),
   value |-> [k \in DOMAIN map.value \cup {key} |->
                IF k = key THEN val ELSE map.value[k]]]

\* register(tool): this.tools.set(tool.name, tool)
register(map, tool) == MapSet(map, tool.name, tool)

\* getSchemas(): Array.from(this.tools.values()).map(...)
getSchemas(map) ==
  [i \in 1..Len(map.order) |->
     LET t == map.value[map.order[i]]
     IN [type |-> "function",
         function |-> [name |-> t.name, description |-> t.description,
                       parameters |-> t.parameters]]]

\* --------------------------------------------------- history: one entry per line
\* The characters of a history entry: a backslash, a newline, the letter n
\* and another letter.
HistoryChars == {"\\", "\n", "n", "a"}

\* s.replace(/ch/g, by): every ch replaced by the characters of `by`.
RECURSIVE ReplaceChar(_, _, _)
ReplaceChar(s, ch, by) ==
  IF s = <<>> THEN <<>>
  ELSE (IF Head(s) = ch THEN by ELSE <<Head(s)>>) \o ReplaceChar(Tail(s), ch, by)

\* Variant of encodeLine that escapes the newlines before the backslashes.
encodeLine_NewlinesFirst(entry) ==
  ReplaceChar(ReplaceChar(entry, "\n", <<"\\", "n">>), "\\", <<"\\", "\\">>)

\* entry.replace(/\\/g, "\\\\").replace(/\n/g, "\\n")
encodeLine(entry) ==
  ReplaceChar(ReplaceChar(entry, "\\", <<"\\", "\\">>), "\n", <<"\\", "n">>)

\* The while loop of decodeLine from position i with `result` built so far.
RECURSIVE DecodeFrom(_, _, _)
DecodeFrom(line, i, result) ==
  IF i > Len(line) THEN result
  ELSE IF line[i] = "\\" /\ i + 1 <= Len(line) /\ line[i + 1] = "n"
    THEN DecodeFrom(line, i + 2, Append(result, "\n"))
  ELSE IF line[i] = "\\" /\ i + 1 <= Len(line) /\ line[i + 1] = "\\"
    THEN DecodeFrom(line, i + 2, Append(result, "\\"))
  ELSE DecodeFrom(line, i + 1, Append(result, line[i]))

decodeLine(line) == DecodeFrom(line, 1, <<>>)

\* ------------------------------------------------------------ applyEdit
EditChars == {"a", "b"}
Absent == <<"<absent>">>

\* EditParams; replaceAll is "true", "false" or undefined.
EditParams ==
  [content : SeqsUpTo(EditChars, MaxLen),
   oldString : SeqsUpTo(EditChars, MaxPattern),
   newString : SeqsUpTo(EditChars, MaxPattern),
   replaceAll : {"true", "false", Undefined}]

\* EditResult: { ok: true, content, replacements } or { ok: false, error },
\* the error of several matches carrying their number.
EditOk(content, replacements) ==
  [ok |-> TRUE, content |-> content, replacements |-> replacements,
   error |-> "", matches |-> 0]
EditError(error, matches) ==
  [ok |-> FALSE, content |-> Absent, replacements |-> 0,
   error |-> error, matches |-> matches]
NoEdit == EditError("", 0)

\* content.split(sep) for a separator that is not empty: the pieces between
\* the matches of sep, found from left to right, each after the one before.
RECURSIVE SplitBy(_, _)
SplitBy(content, sep) ==
  LET i == IndexOf(content, sep, 1)
  IN IF i = 0 THEN <<content>>
     ELSE <<SubSeq(content, 1, i - 1)>>
            \o SplitBy(SubSeq(content, i + Len(sep), Len(content)), sep)

\* parts.join(sep)
RECURSIVE Join(_, _)
Join(parts, sep) ==
  IF Len(parts) = 1 THEN parts[1]
  ELSE parts[1] \o sep \o Join(Tail(parts), sep)

\* Variant of MayReplace that replaces several matches without replace_all.
MayReplace_Always(occurrences, replaceAll) == TRUE

\* !(occurrences > 1 && replaceAll !== true)
MayReplace(occurrences, replaceAll) == ~(occurrences > 1 /\ replaceAll # "true")

applyEdit(params) ==
  IF params.oldString = <<>>
    THEN EditError("old_string must not be empty", 0)
  ELSE IF params.oldString = params.newString
    THEN EditError("old_string and new_string are identical", 0)
  ELSE LET parts == SplitBy(params.content, params.oldString)
           occurrences == Len(parts) - 1
       IN IF occurrences = 0
            THEN EditError("old_string not found in file", 0)
          ELSE IF ~MayReplace(occurrences, params.replaceAll)
            THEN EditError("old_string matches several times", occurrences)
          ELSE EditOk(Join(parts, params.newString), occurrences)

\* ------------------------------------------------ autocomplete: the menu state
MaxCompletions == 3
MaxFilter == 2

\* CompletionItem: names are sequences of characters.
Item(name) == [name |-> name, description |-> "command"]
CompletionItems ==
  {Item(<<"h", "e", "l", "p">>), Item(<<"H", "i", "s", "t">>),
   Item(<<"q", "u", "i", "t">>)}
FilterChars == {"h", "H", "q"}
Filters == SeqsUpTo(FilterChars, MaxFilter)

\* toLowerCase() on the characters used here.
LowerChar(c) == IF c = "H" THEN "h" ELSE c
toLowerCase(s) == [i \in 1..Len(s) |-> LowerChar(s[i])]

\* s.startsWith(prefix)
startsWith(s, prefix) ==
  /\ Len(prefix) <= Len(s)
  /\ SubSeq(s, 1, Len(prefix)) = prefix

Max(a, b) == IF a >= b THEN a ELSE b

\* createAutocomplete(items)
createAutocomplete(allItems) ==
  [allItems |-> allItems, filtered |-> allItems, selectedIndex |-> 0,
   renderedLineCount |-> 0]

\* Variant of ClampIndex that leaves the index where it was.
ClampIndex_Never(index, length) == index

\* updateFilter: if (selectedIndex >= filtered.length)
\*                 selectedIndex = Math.max(0, filtered.length - 1)
ClampIndex(index, length) ==
  IF index >= length THEN Max(0, length - 1) ELSE index

\* updateFilter(state, filter)
updateFilter(state, filter) ==
  LET lower == toLowerCase(filter)
      filtered == IF lower # <<>>
                    THEN SelectSeq(state.allItems,
                                   LAMBDA item : startsWith(toLowerCase(item.name), lower))
                    ELSE state.allItems
  IN [state EXCEPT !.filtered = filtered,
                   !.selectedIndex = ClampIndex(state.selectedIndex, Len(filtered))]

\* moveSelection(state, direction)
moveSelection(state, direction) ==
  IF Len(state.filtered) = 0 THEN state
  ELSE IF direction = "up"
    THEN [state EXCEPT !.selectedIndex =
            IF state.selectedIndex > 0 THEN state.selectedIndex - 1
            ELSE Len(state.filtered) - 1]
  ELSE [state EXCEPT !.selectedIndex =
          IF state.selectedIndex < Len(state.filtered) - 1
            THEN state.selectedIndex + 1
          ELSE 0]

\* getSelectedItem(state): the highlighted item in a one-element sequence,
\* the empty sequence for null.
getSelectedItem(state) ==
  IF Len(state.filtered) = 0 THEN <<>>
  ELSE <<state.filtered[state.selectedIndex + 1]>>

\* --------------------------------------------- readMultiLineInput: edit state
MaxKeys == 5

\* s.slice(from, to) and s.slice(from), positions counted from 0 as in the
\* code and cut to the length of s.
Slice(s, from, to) ==
  LET a == IF from > Len(s) THEN Len(s) ELSE from
      b == IF to > Len(s) THEN Len(s) ELSE to
  IN IF b <= a THEN <<>> ELSE SubSeq(s, a + 1, b)
SliceFrom(s, from) == Slice(s, from, Len(s))

\* array.splice(at, 0, x) and array.splice(at, 1), at counted from 0.
InsertAt(arr, at, x) == SubSeq(arr, 1, at) \o <<x>> \o SubSeq(arr, at + 1, Len(arr))
RemoveAt(arr, at) == SubSeq(arr, 1, at) \o SubSeq(arr, at + 2, Len(arr))

NEWLINE == <<"\n">>
BACKSLASH == <<"\\">>
SLASH == <<"/">>

\* CursorState and HistoryState.
Cursor(lines, row, col) == [lines |-> lines, row |-> row, col |-> col]
History(entries, index, draft) == [entries |-> entries, index |-> index, draft |-> draft]

\* The line the cursor is on: lines[row].
CurrentLine(cursor) == cursor.lines[cursor.row + 1]
SetLine(cursor, line) == [cursor EXCEPT !.lines[cursor.row + 1] = line]

handleArrowLeft(cursor) ==
  IF cursor.col > 0 THEN [cursor EXCEPT !.col = @ - 1] ELSE cursor

handleArrowRight(cursor) ==
  IF cursor.col < Len(CurrentLine(cursor)) THEN [cursor EXCEPT !.col = @ + 1] ELSE cursor

\* Variant of ClampCol that keeps the column of the line left.
ClampCol_Keep(col, line) == col

\* Math.min(state.col, state.lines[state.row].length)
ClampCol(col, line) == IF col < Len(line) THEN col ELSE Len(line)

\* handleArrowUp / handleArrowDown: the cursor, and whether it moved.
handleArrowUp(cursor) ==
  IF cursor.row > 0
    THEN [moved |-> TRUE,
          cursor |-> [cursor EXCEPT !.row = @ - 1,
                                    !.col = ClampCol(cursor.col, cursor.lines[cursor.row])]]
    ELSE [moved |-> FALSE, cursor |-> cursor]

handleArrowDown(cursor) ==
  IF cursor.row < Len(cursor.lines) - 1
    THEN [moved |-> TRUE,
          cursor |-> [cursor EXCEPT !.row = @ + 1,
                                    !.col = ClampCol(cursor.col, cursor.lines[cursor.row + 2])]]
    ELSE [moved |-> FALSE, cursor |-> cursor]

\* historyUp / historyDown: the history state and the cursor after the call.
historyUp(hState, cursor) ==
  IF Len(hState.entries) = 0 \/ hState.index <= 0
    THEN [hState |-> hState, cursor |-> cursor]
    ELSE LET draft == IF hState.index = Len(hState.entries)
                        THEN Join(cursor.lines, NEWLINE) ELSE hState.draft
             index == hState.index - 1
             newLines == SplitBy(hState.entries[index + 1], NEWLINE)
         IN [hState |-> History(hState.entries, index, draft),
             cursor |-> Cursor(newLines, 0, Len(newLines[1]))]

historyDown(hState, cursor) ==
  IF hState.index >= Len(hState.entries)
    THEN [hState |-> hState, cursor |-> cursor]
    ELSE LET index == hState.index + 1
             text == IF index = Len(hState.entries) THEN hState.draft
                     ELSE hState.entries[index + 1]
             newLines == SplitBy(text, NEWLINE)
             row == Len(newLines) - 1
         IN [hState |-> History(hState.entries, index, hState.draft),
             cursor |-> Cursor(newLines, row, Len(newLines[row + 1]))]

\* handleArrow(direction, ...): cursor move first, history at the first and
\* last row.
handleArrow(direction, hState, cursor) ==
  IF direction = "left" THEN [hState |-> hState, cursor |-> handleArrowLeft(cursor)]
  ELSE IF direction = "right" THEN [hState |-> hState, cursor |-> handleArrowRight(cursor)]
  ELSE IF direction = "up"
    THEN IF handleArrowUp(cursor).moved
           THEN [hState |-> hState, cursor |-> handleArrowUp(cursor).cursor]
           ELSE historyUp(hState, cursor)
  ELSE IF handleArrowDown(cursor).moved
    THEN [hState |-> hState, cursor |-> handleArrowDown(cursor).cursor]
  ELSE historyDown(hState, cursor)

\* insertNewline: the line is split at the cursor.
insertNewline(cursor) ==
  LET before == Slice(CurrentLine(cursor), 0, cursor.col)
      after == SliceFrom(CurrentLine(cursor), cursor.col)
  IN Cursor(InsertAt(SetLine(cursor, before).lines, cursor.row + 1, after),
            cursor.row + 1, 0)

\* handleBackspace: delete before the cursor, or join with the line above.
handleBackspace(cursor) ==
  IF cursor.col > 0
    THEN LET line == CurrentLine(cursor)
         IN [SetLine(cursor, Slice(line, 0, cursor.col - 1) \o SliceFrom(line, cursor.col))
               EXCEPT !.col = cursor.col - 1]
  ELSE IF cursor.row > 0
    THEN LET currentLine == CurrentLine(cursor)
             removed == RemoveAt(cursor.lines, cursor.row)
             above == removed[cursor.row]
         IN Cursor([removed EXCEPT ![cursor.row] = above \o currentLine],
                   cursor.row - 1, Len(above))
  ELSE cursor

\* shouldShowAutocomplete(cursor)
shouldShowAutocomplete(cursor) ==
  /\ Len(cursor.lines) = 1
  /\ cursor.row = 0
  /\ startsWith(cursor.lines[1], SLASH)

\* refreshAutocomplete(output, cursor, acRef, provider): the new acRef.
refreshAutocomplete(cursor, ref, provided) ==
  IF shouldShowAutocomplete(cursor)
    THEN LET state == IF ref = <<>> THEN createAutocomplete(provided) ELSE ref[1]
             updated == updateFilter(state, SliceFrom(CurrentLine(cursor), 1))
         IN IF Len(updated.filtered) > 0 THEN <<updated>> ELSE <<>>
    ELSE <<>>

VARIABLES
  tools,                 \* ToolRegistry.tools: name -> registration
  confirmationCallback,  \* ToolRegistry.confirmationCallback
  permissionLevel,       \* ToolRegistry.permissionLevel
  levelSet,              \* setPermissionLevel has been called on the registry
  messages,              \* the conversation array shared by the session
  pc,                    \* where the running invocation is suspended
  via,                   \* "ask" or "direct": who called runAgentLoop
  maxTurns, turn,        \* runAgentLoop: maxTurns argument, loop variable
  response,              \* runAgentLoop: the response of the last model call
  toolCalls, tcIdx,      \* runAgentLoop: response.toolCalls and position
  toolsUsed,             \* runAgentLoop: toolsUsed
  signal,                \* the AbortSignal: "none", "clear" or "aborted"
  skipConfirmation,      \* ask: the closure variable of its callback
  exec,                  \* the execute call in progress / last finished
  turnLog,               \* per tool call of the current turn: what happened
  chatCalls,             \* model calls made by the current invocation
  allRequested,          \* every response so far carried a tool call
  loopResult, askResult, \* how the last runAgentLoop / ask ended
  runs,                  \* invocations started so far
  chats,                 \* model calls made so far in the session
  requested,             \* tool calls requested so far in the session
  body, pos,             \* chat: the response body and how much was read
  onToken,               \* chat: an onToken callback was supplied
  sseBuffer,             \* chat: sseBuffer
  fullContent,           \* chat: fullContent
  finishReason,          \* chat: finishReason
  toolCallAccum,         \* chat: toolCallAccum
  insideThink,           \* chat: insideThink
  thinkTagBuffer,        \* chat: thinkTagBuffer
  shown,                 \* what onToken has been given
  cancelSignal,          \* the AbortSignal the caller passes to chat
  resumed,               \* a line begun in one chunk was completed by a later one
  chatPc,                \* "off", "reading" or "done"
  chatOutcome,           \* how the chat call ended
  items,                 \* the content streamed to the reasoning splitter
  toolsMap,              \* ToolRegistry.tools as a Map: key order and values
  registerLog,           \* the register calls made so far, in order
  lastSchemas,           \* what the last getSchemas call returned
  schemasAt,             \* register calls made before that call (-1: none yet)
  entry,                 \* history: the entry appendHistory is given
  fileLine,              \* history: the line written for it
  decoded,               \* history: what loadHistory reads back from the line
  histPc,                \* history: "off", "entry", "written" or "loaded"
  editParams,            \* applyEdit: its argument
  editResult,            \* applyEdit: what it returned
  acRef,                 \* autocomplete: <<state>>, or <<>> for null
  acCall,                \* autocomplete: the last call made on the state
  cursor,                \* readMultiLineInput: cursor (lines, row, col)
  hState,                \* readMultiLineInput: hState (entries, index, draft)
  completions,           \* <<what completionProvider returns>>, <<>> without one
  inputPc,               \* "off", "reading", "input", "eof" or "exit"
  keyCount               \* data events handled so far

agentVars ==
  <<tools, confirmationCallback, permissionLevel, levelSet, messages, pc, via,
    maxTurns, turn, response, toolCalls, tcIdx, toolsUsed, signal, skipConfirmation,
    exec, turnLog, chatCalls, allRequested, loopResult, askResult, runs, chats, requested>>

readLocals ==
  <<fullContent, finishReason, toolCallAccum, insideThink, thinkTagBuffer, shown>>

clientVars ==
  <<body, onToken, pos, sseBuffer, readLocals, cancelSignal, resumed, chatPc, chatOutcome,
    items>>

editorVars == <<cursor, hState, completions, inputPc, keyCount>>

inputVars == <<acRef, acCall, editorVars>>

fileVars ==
  <<toolsMap, registerLog, lastSchemas, schemasAt, entry, fileLine, decoded,
    histPc, editParams, editResult>>

unitVars ==
  <<toolsMap, registerLog, lastSchemas, schemasAt, entry, fileLine, decoded,
    histPc, editParams, editResult, inputVars>>

vars == <<agentVars, clientVars, unitVars>>

registryVars == <<tools, confirmationCallback, permissionLevel, levelSet>>
loopLocals == <<maxTurns, turn, response, toolCalls, tcIdx, toolsUsed>>


\* The registry, the conversation and the loop before the first invocation.
AgentInit ==
  /\ tools = RegisteredTools
  /\ confirmationCallback = Undefined
  /\ permissionLevel = "write-only"
  /\ levelSet = FALSE
  /\ messages = <<SystemMessage>>
  /\ pc = "idle"
  /\ via = "-"
  /\ maxTurns = 0
  /\ turn = 0
  /\ response = NoResponse
  /\ toolCalls = <<>>
  /\ tcIdx = 0
  /\ toolsUsed = <<>>
  /\ signal = "none"
  /\ skipConfirmation = FALSE
  /\ exec = NoExec
  /\ turnLog = <<>>
  /\ chatCalls = 0
  /\ allRequested = TRUE
  /\ loopResult = NoOutcome
  /\ askResult = NoOutcome
  /\ runs = 0
  /\ chats = 0
  /\ requested = 0

\* The locals of chat's read loop hold the read state st.
ReadLocalsAre(st) ==
  /\ fullContent = st.fullContent
  /\ finishReason = st.finishReason
  /\ toolCallAccum = st.toolCallAccum
  /\ insideThink = st.insideThink
  /\ thinkTagBuffer = st.thinkTagBuffer
  /\ shown = st.shown

\* A chat call on the response body b whose content deltas are its (when the
\* deltas are fed one by one), about to read its first chunk; callers that
\* display the stream supply an onToken callback (ClientInit).
ClientInitWith(callback, phase, b, its) ==
  /\ onToken = callback
  /\ body = b
  /\ pos = 0
  /\ sseBuffer = <<>>
  /\ ReadLocalsAre(InitialRead)
  /\ cancelSignal = "clear"
  /\ resumed = FALSE
  /\ chatPc = phase
  /\ chatOutcome = NoChatOutcome
  /\ items = its

ClientInit(phase, b, its) == ClientInitWith(TRUE, phase, b, its)

\* A registry on which nothing was registered through the Map model, no
\* history entry and no edit in progress.
NoParams ==
  [content |-> <<>>, oldString |-> <<>>, newString |-> <<>>, replaceAll |-> Undefined]

RegistryIdle ==
  /\ toolsMap = EmptyMap
  /\ registerLog = <<>>
  /\ lastSchemas = <<>>
  /\ schemasAt = -1

HistoryIs(phase, e) ==
  /\ entry = e
  /\ fileLine = <<>>
  /\ decoded = <<>>
  /\ histPc = phase

EditIs(params) ==
  /\ editParams = params
  /\ editResult = NoEdit

\* No autocomplete state and no call made on one.
NoAcCall == [op |-> "-", arg |-> <<>>, before |-> <<>>]

\* No input being read.
EditorIs(phase, entries, provided) ==
  /\ cursor = Cursor(<<<<>>>>, 0, 0)
  /\ hState = History(entries, Len(entries), <<>>)
  /\ completions = provided
  /\ inputPc = phase
  /\ keyCount = 0

InputIdle ==
  /\ acRef = <<>>
  /\ acCall = NoAcCall
  /\ EditorIs("off", <<>>, <<>>)

UnitIdle ==
  RegistryIdle /\ HistoryIs("off", <<>>) /\ EditIs(NoParams) /\ InputIdle

Init == AgentInit /\ UnitIdle /\ ClientInit("off", <<>>, <<>>)

\* ------------------------------------------------------------- helpers
\* The invocation ends with outcome `out`; ask's try/catch runs when ask is
\* the caller, and control goes back to the prompt.
Finish(out, msgs) ==
  /\ loopResult' = out
  /\ pc' = "idle"
  /\ IF via = "ask"
       THEN /\ askResult' = AskOutcome(out)
            /\ messages' = AskMessages(out, msgs)
       ELSE /\ askResult' = NoOutcome
            /\ messages' = msgs

\* execute has finished as recorded in e: a thrown error leaves the loop,
\* a returned string is pushed as the tool message of the current call and
\* the for-of loop moves on (the turn ends after the last call).
Complete(e) ==
  /\ exec' = e
  /\ IF e.res.thrown
       THEN /\ Finish(LoopThrow(e.res.err, "execute"), messages)
            /\ UNCHANGED <<turnLog, tcIdx, turn>>
       ELSE /\ messages' = PushMessage(messages, ToolMessage(toolCalls[tcIdx], e.res.value))
            /\ turnLog' = Append(turnLog, e)
            /\ UNCHANGED <<loopResult, askResult>>
            /\ IF tcIdx < Len(toolCalls)
                 THEN /\ tcIdx' = tcIdx + 1
                      /\ pc' = "tool"
                      /\ turn' = turn
                 ELSE /\ tcIdx' = tcIdx
                      /\ pc' = "loop"
                      /\ turn' = turn + 1

\* Variant of Proceed that does not wait for a suspended execute call: the
\* for-of loop moves on while the call is still in flight.
Proceed_NoAwait(e) ==
  IF e.await = "none"
    THEN Complete(e)
    ELSE /\ exec' = e
         /\ UNCHANGED <<messages, turnLog, loopResult, askResult>>
         /\ IF tcIdx < Len(toolCalls)
              THEN /\ tcIdx' = tcIdx + 1
                   /\ pc' = "tool"
                   /\ turn' = turn
              ELSE /\ tcIdx' = tcIdx
                   /\ pc' = "loop"
                   /\ turn' = turn + 1

\* execute goes on as recorded in e: suspended in an await, or finished.
Proceed(e) ==
  IF e.await = "none"
    THEN Complete(e)
    ELSE /\ pc' = e.await
         /\ exec' = e
         /\ UNCHANGED <<messages, turnLog, tcIdx, turn, loopResult, askResult>>

\* Variant of LoopContinues with an off-by-one loop condition.
LoopContinues_OffByOne(t, mt) == t <= mt

\* for (let turn = 0; turn < maxTurns; turn++)
LoopContinues(t, mt) == t < mt

\* Variant of Aborted that never sees the signal.
Aborted_Never(sg) == FALSE

\* signal?.aborted
Aborted(sg) == sg = "aborted"

\* Variant of AskSkipConfirmation that carries the flag over from the ask
\* before.
AskSkipConfirmation_Kept(previous) == previous

\* ask: `let skipConfirmation = false`, a new variable in each invocation,
\* whatever the one before ended with.
AskSkipConfirmation(previous) == FALSE

\* ------------------------------------------------------------- actions
\* One pass of the REPL loop on an input that is not a command: index 0 of
\* the conversation is replaced by the freshly built prompt, then
\* ask(input, ..., {messages: conversationMessages}) is called, every time
\* with the session's config.agent.maxTurns, here the largest maxTurns
\* tried, and pushes the user message.
ReplTurn(freshPrompt) ==
  /\ pc = "idle"
  /\ runs < MaxRuns
  /\ via \in {"-", "ask"}
  /\ maxTurns' = MaxTurnsBound
  /\ messages' = Append([messages EXCEPT ![1] = freshPrompt], UserMessage)
  /\ confirmationCallback' = "ask"
  /\ skipConfirmation' = AskSkipConfirmation(skipConfirmation)
  /\ signal' = "clear"
  /\ via' = "ask"
  /\ pc' = "loop"
  /\ turn' = 0
  /\ response' = NoResponse
  /\ toolCalls' = <<>>
  /\ tcIdx' = 0
  /\ toolsUsed' = <<>>
  /\ exec' = NoExec
  /\ turnLog' = <<>>
  /\ chatCalls' = 0
  /\ allRequested' = TRUE
  /\ loopResult' = NoOutcome
  /\ askResult' = NoOutcome
  /\ runs' = runs + 1
  /\ UNCHANGED <<tools, permissionLevel, levelSet, chats, requested>>
  /\ UNCHANGED <<clientVars, unitVars>>

\* A REPL turn in a session whose memory files stay as they were.
StartAsk == ReplTurn(SystemMessage)

\* A REPL turn after which the memory files may have changed.
StartTurn == \E freshPrompt \in FreshPrompts : ReplTurn(freshPrompt)

\* The /clear command, typed at the prompt.
ClearCommand ==
  /\ pc = "idle"
  /\ via \in {"-", "ask"}
  /\ messages' = Cleared(messages)
  /\ UNCHANGED <<registryVars, pc, via, loopLocals, signal, skipConfirmation,
                 exec, turnLog, chatCalls, allRequested, loopResult, askResult,
                 runs, chats, requested>>
  /\ UNCHANGED <<clientVars, unitVars>>

\* runAgentLoop(messages, llm, tools, ..., maxTurns, signal?) called directly
\* by a harness that does not go through ask, once on its conversation, with
\* no signal or with one that is already aborted.
StartLoop ==
  /\ pc = "idle"
  /\ runs < MaxRuns
  /\ via = "-"
  /\ \E mt \in 0..MaxTurnsBound : maxTurns' = mt
  /\ \E sg \in {"none", "aborted"} : signal' = sg
  /\ via' = "direct"
  /\ pc' = "loop"
  /\ turn' = 0
  /\ response' = NoResponse
  /\ toolCalls' = <<>>
  /\ tcIdx' = 0
  /\ toolsUsed' = <<>>
  /\ exec' = NoExec
  /\ turnLog' = <<>>
  /\ chatCalls' = 0
  /\ allRequested' = TRUE
  /\ loopResult' = NoOutcome
  /\ askResult' = NoOutcome
  /\ runs' = runs + 1
  /\ UNCHANGED <<registryVars, messages, skipConfirmation, chats, requested>>
  /\ UNCHANGED <<clientVars, unitVars>>

\* for (let turn = 0; turn < maxTurns; turn++): send the model call, or
\* leave the loop and return the max-turns result.
LoopHead ==
  /\ pc = "loop"
  /\ IF LoopContinues(turn, maxTurns)
       THEN /\ chats < MaxChats
            /\ pc' = "chat"
            /\ chatCalls' = chatCalls + 1
            /\ chats' = chats + 1
            /\ UNCHANGED <<messages, loopResult, askResult>>
       ELSE /\ Finish(LoopReturn(MAX_TURNS_RESPONSE, maxTurns, toolsUsed), messages)
            /\ UNCHANGED <<chatCalls, chats>>
  /\ UNCHANGED <<registryVars, via, loopLocals, signal, skipConfirmation,
                 exec, turnLog, allRequested, runs, requested>>
  /\ UNCHANGED <<clientVars, unitVars>>

\* The statements after `await llm.chat(...)` for the response resp: the
\* final answer is returned, or the assistant message is pushed and the
\* for-of loop over the tool calls begins.
Resolve(resp) ==
  /\ requested + Len(resp.toolCalls) <= MaxRequested
  /\ requested' = requested + Len(resp.toolCalls)
  /\ response' = resp
  /\ IF Len(resp.toolCalls) = 0
      THEN /\ Finish(LoopReturn(OrElse(resp.content, NO_RESPONSE), turn + 1,
                                toolsUsed),
                     messages)
           /\ allRequested' = FALSE
           /\ UNCHANGED <<toolCalls, tcIdx, turnLog>>
      ELSE /\ messages' = PushMessage(messages, AssistantMessage(resp))
           /\ toolCalls' = resp.toolCalls
           /\ tcIdx' = 1
           /\ turnLog' = <<>>
           /\ pc' = "tool"
           /\ UNCHANGED <<allRequested, loopResult, askResult>>
  /\ UNCHANGED <<registryVars, via, maxTurns, turn, toolsUsed, signal,
                 skipConfirmation, exec, chatCalls, runs, chats>>

\* llm.chat resolves with a response.
ChatReturns ==
  /\ pc = "chat"
  /\ \E resp \in Responses(chats) : Resolve(resp)
  /\ UNCHANGED <<clientVars, unitVars>>

\* llm.chat rejects: the error leaves runAgentLoop as it is.
ChatThrows ==
  /\ pc = "chat"
  /\ \E err \in ChatErrors : Finish(LoopThrow(err, "chat"), messages)
  /\ UNCHANGED <<registryVars, via, loopLocals, signal, skipConfirmation,
                 exec, turnLog, chatCalls, allRequested, runs, chats, requested>>
  /\ UNCHANGED <<clientVars, unitVars>>

\* Top of the for-of body: the signal check, then tools.execute up to its
\* first await (unknown name, the confirmation callback, or the handler).
ToolStep ==
  /\ pc = "tool"
  /\ IF Aborted(signal)
       THEN /\ Finish(LoopThrow(UserAbortError(ABORT_DEFAULT_MESSAGE, <<>>), "signal"),
                      messages)
            /\ UNCHANGED <<toolsUsed, exec, turnLog, tcIdx, turn>>
       ELSE /\ toolsUsed' = RecordTool(toolsUsed, toolCalls[tcIdx].name)
            /\ Proceed(ExecuteStart(toolCalls[tcIdx].name, toolCalls[tcIdx].arguments,
                                    tools, permissionLevel, confirmationCallback))
  /\ UNCHANGED <<registryVars, via, maxTurns, response, toolCalls, signal,
                 skipConfirmation, chatCalls, allRequested, runs, chats, requested>>
  /\ UNCHANGED <<clientVars, unitVars>>

\* Variant of KeyVerdict in which the prompt ignores Escape.
KeyVerdict_EscapeIgnored(key) ==
  IF key = "y" THEN "yes"
  ELSE IF key = "n" THEN "no"
  ELSE IF key = "d" THEN "skip"
  ELSE "ignored"

\* readConfirmation's onData: y/Y is "yes", n/N and Escape are "no", d/D is
\* "skip", any other key is ignored and the prompt keeps waiting.
KeyVerdict(key) ==
  IF key = "y" THEN "yes"
  ELSE IF key \in {"n", "escape"} THEN "no"
  ELSE IF key = "d" THEN "skip"
  ELSE "ignored"

\* startHotkeyListener's onData: a bare Escape calls onEscape, which is
\* abortController.abort().
HotkeyAborts(key) == key = "escape"

\* ask's callback: `if (skipConfirmation) return true` comes before the
\* prompt is written and readConfirmation is awaited.
Prompts(cb, skip) == cb = "ask" /\ ~skip

\* The key behind the result r of the callback: the one readConfirmation
\* resolved on, "-" when no key was read.
KeyRead(cb, skip, r) ==
  IF Prompts(cb, skip)
    THEN CHOOSE key \in {"y", "n", "d"} : KeyVerdict(key) = r
    ELSE "-"

\* What the installed callback may resolve with.  ask's callback returns
\* true at once when skipConfirmation is set, else the key read by
\* readConfirmation; any other callback returns either boolean.
ConfirmResults(cb, skip) ==
  IF cb = "ask"
    THEN IF skip THEN {"yes"} ELSE {KeyVerdict(key) : key \in {"y", "n", "d"}}
    ELSE {"yes", "no"}

\* The confirmation callback resolves.
CallbackReturns ==
  /\ pc = "confirm"
  /\ \E r \in ConfirmResults(exec.callback, skipConfirmation) :
       /\ skipConfirmation' = (skipConfirmation \/ r = "skip")
       /\ Proceed(ConfirmationStep(
                    [exec EXCEPT !.key = KeyRead(exec.callback, skipConfirmation, r)],
                    r # "no"))
  /\ UNCHANGED <<registryVars, via, maxTurns, response, toolCalls, toolsUsed,
                 signal, chatCalls, allRequested, runs, chats, requested>>
  /\ UNCHANGED <<clientVars, unitVars>>

\* The confirmation callback rejects.
CallbackThrows ==
  /\ pc = "confirm"
  /\ exec.callback = "custom"
  /\ \E err \in CallbackErrors : Proceed(ConfirmationThrew(exec, err))
  /\ UNCHANGED <<registryVars, via, maxTurns, response, toolCalls, toolsUsed,
                 signal, skipConfirmation, chatCalls, allRequested, runs, chats,
                 requested>>
  /\ UNCHANGED <<clientVars, unitVars>>

\* tool.handler resolves.
HandlerReturns ==
  /\ pc = "handler"
  /\ Proceed(HandlerReturned(exec, HandlerResult(exec.name)))
  /\ UNCHANGED <<registryVars, via, maxTurns, response, toolCalls, toolsUsed,
                 signal, skipConfirmation, chatCalls, allRequested, runs, chats,
                 requested>>
  /\ UNCHANGED <<clientVars, unitVars>>

\* tool.handler rejects.
HandlerThrows ==
  /\ pc = "handler"
  /\ \E err \in HandlerErrors : Proceed(HandlerThrew(exec, err))
  /\ UNCHANGED <<registryVars, via, maxTurns, response, toolCalls, toolsUsed,
                 signal, skipConfirmation, chatCalls, allRequested, runs, chats,
                 requested>>
  /\ UNCHANGED <<clientVars, unitVars>>

\* log(`[turn n]`) at the top of a loop pass, or log(`[tool] name(args)`)
\* before a tool invocation, fails: the loop calls log bare, so the error
\* leaves runAgentLoop.  The log callback is one a harness supplies; ask's
\* only writes to the terminal.
LogThrows ==
  /\ via = "direct"
  /\ \/ pc = "loop" /\ LoopContinues(turn, maxTurns)
     \/ pc = "tool" /\ ~Aborted(signal)
  /\ \E err \in LogErrors : Finish(LoopThrow(err, "log"), messages)
  /\ UNCHANGED <<registryVars, via, loopLocals, signal, skipConfirmation,
                 exec, turnLog, chatCalls, allRequested, runs, chats, requested>>
  /\ UNCHANGED <<clientVars, unitVars>>

\* The Escape key arrives while ask's callback waits in readConfirmation:
\* stdin hands the same data event to the hotkey listener, which aborts, and
\* to the prompt's listener, which resolves the prompt, one after the other
\* before anything else runs.
EscapeAtPrompt ==
  /\ pc = "confirm"
  /\ exec.callback = "ask"
  /\ ~skipConfirmation
  /\ signal' = IF HotkeyAborts("escape") THEN "aborted" ELSE signal
  /\ IF KeyVerdict("escape") = "ignored"
       THEN UNCHANGED <<messages, pc, exec, turnLog, tcIdx, turn, loopResult, askResult>>
       ELSE Proceed(ConfirmationStep([exec EXCEPT !.key = "escape"],
                                     KeyVerdict("escape") # "no"))
  /\ UNCHANGED <<registryVars, via, maxTurns, response, toolCalls, toolsUsed,
                 skipConfirmation, chatCalls, allRequested, runs, chats, requested>>
  /\ UNCHANGED <<clientVars, unitVars>>

\* abortController.abort(): Escape pressed while the invocation is running
\* and no prompt of ask's callback is waiting for a key (with
\* skipConfirmation set the callback returns without reading one), or the
\* signal of a harness firing at any time.
Abort ==
  /\ pc # "idle"
  /\ signal = "clear"
  /\ pc = "confirm" => exec.callback # "ask"
  /\ signal' = "aborted"
  /\ UNCHANGED <<registryVars, messages, pc, via, loopLocals, skipConfirmation,
                 exec, turnLog, chatCalls, allRequested, loopResult, askResult, runs, chats, requested>>
  /\ UNCHANGED <<clientVars, unitVars>>

\* registry.setPermissionLevel(level): at the prompt (/permissions), which
\* the REPL reads only between two asks, or by a harness that holds the
\* registry while an execute call is waiting for its confirmation.
SetPermissionLevel ==
  /\ pc \in {"idle", "confirm"}
  /\ pc = "idle" => (runs < MaxRuns /\ via # "direct")
  /\ pc = "confirm" => via = "direct"
  /\ \E level \in PermissionLevel \ {permissionLevel} : permissionLevel' = level
  /\ levelSet' = TRUE
  /\ UNCHANGED <<tools, confirmationCallback, messages, pc, via, loopLocals,
                 signal, skipConfirmation, exec, turnLog, chatCalls,
                 allRequested, loopResult, askResult, runs, chats, requested>>
  /\ UNCHANGED <<clientVars, unitVars>>

\* registry.setConfirmationCallback(cb) with a callback other than ask's.
SetConfirmationCallback ==
  /\ pc = "idle"
  /\ runs < MaxRuns
  /\ via = "-"
  /\ confirmationCallback # "custom"
  /\ confirmationCallback' = "custom"
  /\ UNCHANGED <<tools, permissionLevel, levelSet, messages, pc, via, loopLocals,
                 signal, skipConfirmation, exec, turnLog, chatCalls,
                 allRequested, loopResult, askResult, runs, chats, requested>>
  /\ UNCHANGED <<clientVars, unitVars>>

Next ==
  \/ StartAsk
  \/ StartLoop
  \/ LoopHead
  \/ ChatReturns
  \/ ChatThrows
  \/ ToolStep
  \/ CallbackReturns
  \/ CallbackThrows
  \/ HandlerReturns
  \/ HandlerThrows
  \/ LogThrows
  \/ Abort
  \/ EscapeAtPrompt
  \/ SetPermissionLevel
  \/ SetConfirmationCallback

Spec == Init /\ [][Next]_vars

\* A REPL session with /clear and a system prompt rebuilt at every turn.
NextSession ==
  \/ StartTurn
  \/ ClearCommand
  \/ LoopHead
  \/ ChatReturns
  \/ ChatThrows
  \/ ToolStep
  \/ CallbackReturns
  \/ HandlerReturns
  \/ HandlerThrows
  \/ Abort
  \/ EscapeAtPrompt

SpecSession == Init /\ [][NextSession]_vars

\* ------------------------------------------------- LLMClient.chat: steps
\* The locals of the read loop as a read state, and their next values.
CurrentRead ==
  ReadState(onToken, fullContent, finishReason, toolCallAccum, insideThink,
            thinkTagBuffer, shown)

ReadLocalsBecome(st) ==
  /\ fullContent' = st.fullContent
  /\ finishReason' = st.finishReason
  /\ toolCallAccum' = st.toolCallAccum
  /\ insideThink' = st.insideThink
  /\ thinkTagBuffer' = st.thinkTagBuffer
  /\ shown' = st.shown

\* reader.read() resolves with the next chunk, of any size; the pass of the
\* while loop for it.  The signal the caller passed is not looked at.
ReadChunk ==
  /\ chatPc = "reading"
  /\ items = <<>>
  /\ pos < Len(body)
  /\ \E n \in 1..(Len(body) - pos) :
       LET chunk == SubSeq(body, pos + 1, pos + n)
           r == ReadChunkStep(CurrentRead, sseBuffer, chunk)
       IN /\ ReadLocalsBecome(r.st)
          /\ sseBuffer' = r.sseBuffer
          /\ pos' = pos + n
          /\ resumed' = (resumed \/ (sseBuffer # <<>> /\ NL \in {chunk[i] : i \in 1..n}))
  /\ UNCHANGED <<agentVars, unitVars, body, onToken, cancelSignal, chatPc, chatOutcome, items>>

\* reader.read() resolves with done: the think buffer is flushed and the
\* response is built and returned.
ReadDone ==
  /\ chatPc = "reading"
  /\ items = <<>>
  /\ pos = Len(body)
  /\ LET st == FlushThink(CurrentRead)
     IN /\ ReadLocalsBecome(st)
        /\ chatOutcome' = ChatReturn(BuildResponse(st))
  /\ chatPc' = "done"
  /\ UNCHANGED <<agentVars, unitVars, body, onToken, pos, sseBuffer, cancelSignal, resumed, items>>

\* The caller's signal fires while the stream is being read.
CancelFires ==
  /\ chatPc = "reading"
  /\ items = <<>>
  /\ pos < Len(body)
  /\ cancelSignal = "clear"
  /\ cancelSignal' = "aborted"
  /\ UNCHANGED <<agentVars, unitVars, body, onToken, pos, sseBuffer, readLocals, resumed, chatPc,
                 chatOutcome, items>>

\* A content delta arrives: any non-empty fragment of the content not yet
\* streamed.
DeltaArrives ==
  /\ chatPc = "reading"
  /\ Len(fullContent) < Len(Flatten(items))
  /\ \E n \in 1..(Len(Flatten(items)) - Len(fullContent)) :
       ReadLocalsBecome(
         ContentDelta(CurrentRead,
                      SubSeq(Flatten(items), Len(fullContent) + 1,
                             Len(fullContent) + n)))
  /\ UNCHANGED <<agentVars, unitVars, body, onToken, pos, sseBuffer, cancelSignal, resumed, chatPc,
                 chatOutcome, items>>

\* The stream of content deltas ends: the think buffer is flushed.
StreamEnds ==
  /\ chatPc = "reading"
  /\ items # <<>>
  /\ Len(fullContent) = Len(Flatten(items))
  /\ ReadLocalsBecome(FlushThink(CurrentRead))
  /\ chatPc' = "done"
  /\ UNCHANGED <<agentVars, unitVars, body, onToken, pos, sseBuffer, cancelSignal, resumed,
                 chatOutcome, items>>

\* LLMClient.chat reading a response body cut into chunks in any way.
InitChat == AgentInit /\ UnitIdle /\ \E b \in Bodies : ClientInit("reading", b, <<>>)

NextChat ==
  \/ ReadChunk
  \/ ReadDone
  \/ CancelFires

SpecChat == InitChat /\ [][NextChat]_vars

\* The lines of a body that carries content, a tool call and a finish reason.
ContentLines ==
  {<<DATA_PREFIX, r>> :
     r \in {Json(TRUE, "", <<"a">>, <<>>),
            Json(TRUE, "", OPEN_TAG \o <<"r">>, <<>>),
            Json(TRUE, "", CLOSE_TAG \o <<" ">>, <<>>),
            Json(TRUE, "", <<>>, <<CallDelta(0, <<"c1">>, <<"shell">>, <<>>)>>),
            Json(TRUE, "length", <<>>, <<>>)}}

\* LLMClient.chat called with or without an onToken callback.
InitTokens ==
  AgentInit /\ UnitIdle
            /\ \E cb \in BOOLEAN, b \in AllBodies(ContentLines) :
                ClientInitWith(cb, "reading", b, <<>>)

SpecTokens == InitTokens /\ [][NextChat]_vars

\* LLMClient.chat reading a body of tool-call records cut into chunks.
InitCalls == AgentInit /\ UnitIdle /\ \E b \in CallBodies : ClientInit("reading", b, <<>>)

SpecCalls == InitCalls /\ [][NextChat]_vars

\* The reasoning splitter fed a content cut into fragments in any way.
InitThink ==
  AgentInit /\ UnitIdle /\ \E its \in Contents \ {<<>>} : ClientInit("reading", <<>>, its)

NextThink ==
  \/ DeltaArrives
  \/ StreamEnds

SpecThink == InitThink /\ [][NextThink]_vars

\* ------------------------------------- one turn: the model call, then its tools
\* A tool name assembled from fragments, as the registry looks it up; every
\* name that is not registered is looked up in vain alike.
ToolName(fragments) ==
  IF fragments = <<"shell">> THEN "shell"
  ELSE IF fragments = <<"read", "_file">> THEN "read_file"
  ELSE UnknownTool

\* The id of a streamed tool call among the ids of the conversation.
IdNumber(id) ==
  IF id = <<"c1">> THEN 1
  ELSE IF id = <<"c2">> THEN 2
  ELSE IF id = <<"c3">> THEN 3
  ELSE NoId

\* The LLMResponse of chat as runAgentLoop reads it: content and toolCalls.
LoopResponse(resp) ==
  [content |-> resp.content,
   toolCalls |-> [i \in 1..Len(resp.toolCalls) |->
                    [id |-> IdNumber(resp.toolCalls[i].id),
                     name |-> ToolName(resp.toolCalls[i].name),
                     arguments |-> resp.toolCalls[i].arguments]]]

\* fetch resolved with a successful status: chat starts to read the body.
ChatBegins ==
  /\ pc = "chat"
  /\ chatPc = "off"
  /\ chatPc' = "reading"
  /\ UNCHANGED <<agentVars, unitVars, body, onToken, pos, sseBuffer, readLocals, cancelSignal,
                 resumed, chatOutcome, items>>

\* `await llm.chat(...)` resolves with the response chat built.
ChatResolves ==
  /\ pc = "chat"
  /\ chatPc = "done"
  /\ chatOutcome.kind = "return"
  /\ Resolve(LoopResponse(chatOutcome.response))
  /\ UNCHANGED <<clientVars, unitVars>>

\* runAgentLoop(messages, llm, tools, log, onToken, 1) has just been called
\* on a conversation of a system and a user message, with a registry that has
\* no confirmation callback; the server will answer with the body b.
InitTurn ==
  /\ tools = RegisteredTools
  /\ confirmationCallback = Undefined
  /\ permissionLevel = "write-only"
  /\ levelSet = FALSE
  /\ messages = <<SystemMessage, UserMessage>>
  /\ pc = "loop"
  /\ via = "direct"
  /\ maxTurns = 1
  /\ turn = 0
  /\ response = NoResponse
  /\ toolCalls = <<>>
  /\ tcIdx = 0
  /\ toolsUsed = <<>>
  /\ signal = "none"
  /\ skipConfirmation = FALSE
  /\ exec = NoExec
  /\ turnLog = <<>>
  /\ chatCalls = 0
  /\ allRequested = TRUE
  /\ loopResult = NoOutcome
  /\ askResult = NoOutcome
  /\ runs = 1
  /\ chats = 0
  /\ requested = 0
  /\ UnitIdle
  /\ \E b \in CallBodies : ClientInit("off", b, <<>>)

NextTurn ==
  \/ LoopHead
  \/ ChatBegins
  \/ ReadChunk
  \/ ReadDone
  \/ ChatResolves
  \/ ToolStep
  \/ HandlerReturns
  \/ HandlerThrows

SpecTurn == InitTurn /\ [][NextTurn]_vars

\* ------------------------------------------ runAgentLoop with a live signal
\* runAgentLoop(messages, llm, tools, log, onToken, mt, signal) has just been
\* called by a harness on a conversation of a system and a user message; the
\* harness holds the AbortController of the signal and may have installed a
\* confirmation callback and set the permission level.
InitCancel ==
  /\ tools = RegisteredTools
  /\ confirmationCallback \in {Undefined, "custom"}
  /\ permissionLevel \in PermissionLevel
  /\ levelSet = TRUE
  /\ messages = <<SystemMessage, UserMessage>>
  /\ pc = "loop"
  /\ via = "direct"
  /\ maxTurns \in 1..MaxTurnsBound
  /\ turn = 0
  /\ response = NoResponse
  /\ toolCalls = <<>>
  /\ tcIdx = 0
  /\ toolsUsed = <<>>
  /\ signal = "clear"
  /\ skipConfirmation = FALSE
  /\ exec = NoExec
  /\ turnLog = <<>>
  /\ chatCalls = 0
  /\ allRequested = TRUE
  /\ loopResult = NoOutcome
  /\ askResult = NoOutcome
  /\ runs = 1
  /\ chats = 0
  /\ requested = 0
  /\ UnitIdle
  /\ ClientInit("off", <<>>, <<>>)

NextCancel ==
  \/ LoopHead
  \/ ChatReturns
  \/ ChatThrows
  \/ ToolStep
  \/ CallbackReturns
  \/ CallbackThrows
  \/ HandlerReturns
  \/ HandlerThrows
  \/ Abort

SpecCancel == InitCancel /\ [][NextCancel]_vars

\* ----------------------------------------------- ToolRegistry: the schemas
\* registry.register(tool)
Register ==
  /\ Len(registerLog) < MaxRegisters
  /\ \E tool \in Registrations :
       /\ toolsMap' = register(toolsMap, tool)
       /\ registerLog' = Append(registerLog, tool)
  /\ UNCHANGED <<agentVars, clientVars, lastSchemas, schemasAt, entry, fileLine,
                 decoded, histPc, editParams, editResult, inputVars>>

\* registry.getSchemas()
GetSchemas ==
  /\ lastSchemas' = getSchemas(toolsMap)
  /\ schemasAt' = Len(registerLog)
  /\ UNCHANGED <<agentVars, clientVars, toolsMap, registerLog, entry, fileLine,
                 decoded, histPc, editParams, editResult, inputVars>>

InitRegistry ==
  AgentInit /\ ClientInit("off", <<>>, <<>>) /\ UnitIdle

NextRegistry ==
  \/ Register
  \/ GetSchemas

SpecRegistry == InitRegistry /\ [][NextRegistry]_vars

\* ------------------------------------------------------- history: round trip
\* appendHistory(filePath, entry): the encoded entry is written as one line.
AppendHistory ==
  /\ histPc = "entry"
  /\ fileLine' = encodeLine(entry)
  /\ histPc' = "written"
  /\ UNCHANGED <<agentVars, clientVars, toolsMap, registerLog, lastSchemas,
                 schemasAt, entry, decoded, editParams, editResult, inputVars>>

\* loadHistory(filePath): the line is decoded.
LoadHistory ==
  /\ histPc = "written"
  /\ decoded' = decodeLine(fileLine)
  /\ histPc' = "loaded"
  /\ UNCHANGED <<agentVars, clientVars, toolsMap, registerLog, lastSchemas,
                 schemasAt, entry, fileLine, editParams, editResult, inputVars>>

InitHistory ==
  /\ AgentInit /\ ClientInit("off", <<>>, <<>>)
  /\ RegistryIdle /\ EditIs(NoParams) /\ InputIdle
  /\ \E e \in SeqsUpTo(HistoryChars, MaxLen) : HistoryIs("entry", e)

NextHistory ==
  \/ AppendHistory
  \/ LoadHistory

SpecHistory == InitHistory /\ [][NextHistory]_vars

\* ------------------------------------------------------------ applyEdit
\* applyEdit(params) is called and returns.
ApplyEdit ==
  /\ editResult = NoEdit
  /\ editResult' = applyEdit(editParams)
  /\ UNCHANGED <<agentVars, clientVars, toolsMap, registerLog, lastSchemas,
                 schemasAt, entry, fileLine, decoded, histPc, editParams, inputVars>>

InitEdit ==
  /\ AgentInit /\ ClientInit("off", <<>>, <<>>)
  /\ RegistryIdle /\ HistoryIs("off", <<>>) /\ InputIdle
  /\ \E params \in EditParams : EditIs(params)

NextEdit == ApplyEdit

SpecEdit == InitEdit /\ [][NextEdit]_vars

\* ------------------------------------------------- autocomplete: the calls
\* updateFilter(state, filter)
UpdateFilter ==
  /\ acRef # <<>>
  /\ \E filter \in Filters :
       /\ acRef' = <<updateFilter(acRef[1], filter)>>
       /\ acCall' = [op |-> "updateFilter", arg |-> filter, before |-> acRef]
  /\ UNCHANGED <<agentVars, clientVars, toolsMap, registerLog, lastSchemas,
                 schemasAt, entry, fileLine, decoded, histPc, editParams, editResult,
                 editorVars>>

\* moveSelection(state, direction)
MoveSelection ==
  /\ acRef # <<>>
  /\ \E direction \in {"up", "down"} :
       /\ acRef' = <<moveSelection(acRef[1], direction)>>
       /\ acCall' = [op |-> "moveSelection", arg |-> <<direction>>, before |-> acRef]
  /\ UNCHANGED <<agentVars, clientVars, toolsMap, registerLog, lastSchemas,
                 schemasAt, entry, fileLine, decoded, histPc, editParams, editResult,
                 editorVars>>

\* The state createAutocomplete returns for a list of completion items.
InitAutocomplete ==
  /\ AgentInit /\ ClientInit("off", <<>>, <<>>)
  /\ RegistryIdle /\ HistoryIs("off", <<>>) /\ EditIs(NoParams)
  /\ \E allItems \in SeqsUpTo(CompletionItems, MaxCompletions) :
       acRef = <<createAutocomplete(allItems)>>
  /\ acCall = NoAcCall
  /\ EditorIs("off", <<>>, <<>>)

NextAutocomplete ==
  \/ UpdateFilter
  \/ MoveSelection

SpecAutocomplete == InitAutocomplete /\ [][NextAutocomplete]_vars

\* ------------------------------------------- readMultiLineInput: key events
\* What the user types or pastes in one data event, the commands the REPL
\* completes, and the histories a session may have loaded.
TypedTexts == {SLASH, <<"h">>, BACKSLASH, <<"x", "\n">>}
Commands ==
  <<Item(<<"h", "e", "l", "p">>), Item(<<"H", "i", "s", "t">>),
    Item(<<"q", "u", "i", "t">>)>>
HistoryLists == {<<>>, <<<<"h", "\n", "h">>, <<"/", "h">>>>}

\* onData is called with one more chunk; what is left alone by every branch.
OnData ==
  /\ inputPc = "reading"
  /\ keyCount < MaxKeys
  /\ keyCount' = keyCount + 1
  /\ UNCHANGED <<agentVars, clientVars, fileVars, acCall, completions>>

\* cleanup() and resolve(...), or process.exit(0)
Leave(phase) ==
  /\ acRef' = <<>>
  /\ inputPc' = phase

\* Ctrl+C: exit immediately.
KeyCtrlC ==
  /\ OnData
  /\ Leave("exit")
  /\ UNCHANGED <<cursor, hState>>

\* Ctrl+D: EOF on an empty buffer, ignored otherwise.
KeyCtrlD ==
  /\ OnData
  /\ IF Len(Join(cursor.lines, NEWLINE)) = 0
       THEN Leave("eof")
       ELSE UNCHANGED <<acRef, inputPc>>
  /\ UNCHANGED <<cursor, hState>>

\* Escape: dismissAutocomplete.
KeyEscape ==
  /\ OnData
  /\ acRef' = <<>>
  /\ UNCHANGED <<cursor, hState, inputPc>>

\* Tab: fill in the selected completion.
KeyTab ==
  /\ OnData
  /\ IF acRef # <<>> /\ getSelectedItem(acRef[1]) # <<>>
       THEN LET value == SLASH \o getSelectedItem(acRef[1])[1].name
            IN /\ cursor' = [SetLine(cursor, value) EXCEPT !.col = Len(value)]
               /\ acRef' = <<>>
       ELSE UNCHANGED <<cursor, acRef>>
  /\ UNCHANGED <<hState, inputPc>>

\* Shift+Enter: a new line at the cursor.
KeyShiftEnter ==
  /\ OnData
  /\ acRef' = <<>>
  /\ cursor' = insertNewline(cursor)
  /\ UNCHANGED <<hState, inputPc>>

\* Enter: submit the selected completion, continue a line that ends with a
\* backslash, or submit the buffer.
KeyEnter ==
  /\ OnData
  /\ IF acRef # <<>> /\ getSelectedItem(acRef[1]) # <<>>
       THEN LET value == SLASH \o getSelectedItem(acRef[1])[1].name
            IN /\ cursor' = [cursor EXCEPT !.lines = <<value>>, !.col = Len(value)]
               /\ Leave("input")
     ELSE IF EndsWith(CurrentLine(cursor), BACKSLASH)
       THEN LET line == CurrentLine(cursor)
            IN /\ cursor' = insertNewline(SetLine(cursor, Slice(line, 0, Len(line) - 1)))
               /\ UNCHANGED <<acRef, inputPc>>
     ELSE /\ Leave("input")
          /\ UNCHANGED cursor
  /\ UNCHANGED hState

\* An arrow key: the menu when it is open and the key is up or down, else
\* the cursor or the history.
KeyArrow ==
  /\ OnData
  /\ \E arrow \in {"up", "down", "left", "right"} :
       IF acRef # <<>> /\ arrow \in {"up", "down"}
         THEN /\ acRef' = <<moveSelection(acRef[1], arrow)>>
              /\ UNCHANGED <<cursor, hState>>
         ELSE /\ cursor' = handleArrow(arrow, hState, cursor).cursor
              /\ hState' = handleArrow(arrow, hState, cursor).hState
              /\ UNCHANGED acRef
  /\ UNCHANGED inputPc

\* Backspace, then the menu is refreshed when there is a provider.
KeyBackspace ==
  /\ OnData
  /\ cursor' = handleBackspace(cursor)
  /\ acRef' = IF completions # <<>>
                THEN refreshAutocomplete(cursor', acRef, completions[1])
                ELSE acRef
  /\ UNCHANGED <<hState, inputPc>>

\* Any other chunk is inserted at the cursor as text.
KeyText ==
  /\ OnData
  /\ \E text \in TypedTexts :
       LET line == CurrentLine(cursor)
       IN cursor' = [SetLine(cursor, Slice(line, 0, cursor.col) \o text
                                       \o SliceFrom(line, cursor.col))
                       EXCEPT !.col = cursor.col + Len(text)]
  /\ acRef' = IF completions # <<>>
                THEN refreshAutocomplete(cursor', acRef, completions[1])
                ELSE acRef
  /\ UNCHANGED <<hState, inputPc>>

\* readMultiLineInput(options) has been called: an empty first line, the
\* history at its draft position, no menu.
InitInput ==
  /\ AgentInit /\ ClientInit("off", <<>>, <<>>)
  /\ RegistryIdle /\ HistoryIs("off", <<>>) /\ EditIs(NoParams)
  /\ acRef = <<>>
  /\ acCall = NoAcCall
  /\ \E entries \in HistoryLists, provided \in {<<>>, <<Commands>>} :
       EditorIs("reading", entries, provided)

NextInput ==
  \/ KeyCtrlC
  \/ KeyCtrlD
  \/ KeyEscape
  \/ KeyTab
  \/ KeyShiftEnter
  \/ KeyEnter
  \/ KeyArrow
  \/ KeyBackspace
  \/ KeyText

SpecInput == InitInput /\ [][NextInput]_vars

\* =================================================================
\* Properties
\* =================================================================

\* The permission matrix as the documentation states it: does a tool of
\* this group need confirmation under this level?
RequiresConfirmation(group, level) ==
  CASE group = "write" -> level \in {"write-only", "read-and-write"}
    [] group = "read"  -> level = "read-and-write"
    [] group = "none"  -> FALSE

\* The group a registration counts as: its own group, else write for the
\* legacy flag, else none.
DocumentedGroup(tool) ==
  CASE tool.confirmationGroup # Undefined -> tool.confirmationGroup
    [] tool.confirmationGroup = Undefined /\ tool.requiresConfirmation = "true" -> "write"
    [] OTHER -> "none"

\* The execute call in progress (or last finished) was for a registered tool
\* whose group needed confirmation under the level the call read.
ExecNeededConfirmation ==
  /\ exec.known
  /\ RequiresConfirmation(DocumentedGroup(tools[exec.name]), exec.level)

\* C1 (as stated): a handler is invoked only if the confirmation callback
\* approved that very call or the tool's group does not require confirmation
\* under the level in force at the call.
C1_HandlerOnlyIfApprovedOrExempt ==
  exec.handlerCalls > 0 => (exec.verdict = "approved" \/ ~ExecNeededConfirmation)

\* C1 (amended): a handler is invoked only for a registered tool, at most once
\* per call, and only if the callback approved that very call, or the tool's
\* group does not require confirmation under the level in force at the call,
\* or no confirmation callback was installed at the call.
C1_HandlerOnlyIfApprovedExemptOrNoCallback ==
  /\ exec.handlerCalls <= 1
  /\ exec.handlerCalls > 0 =>
       /\ exec.known
       /\ \/ exec.verdict = "approved"
          \/ ~ExecNeededConfirmation
          \/ exec.callback = Undefined

\* C1 witness: a handler is running after the callback approved a gated call.
C1_Witness ==
  /\ pc = "handler"
  /\ exec.handlerCalls = 1
  /\ exec.verdict = "approved"
  /\ ExecNeededConfirmation

\* C2: shouldConfirm is exactly the documented function of (group, level),
\* with the legacy flag counting as write and no gating field as none, for
\* every shape of registration under the level in force; execute consults
\* the installed callback exactly for the calls that function gates; and a
\* registry whose level was never set is at write-only.
C2_PermissionMatrix ==
  /\ \A tool \in ToolRegistration :
       shouldConfirm(tool, permissionLevel)
         = RequiresConfirmation(DocumentedGroup(tool), permissionLevel)
  /\ \A name \in DOMAIN tools :
       shouldConfirm(tools[name], permissionLevel)
         = RequiresConfirmation(DocumentedGroup(tools[name]), permissionLevel)
  /\ (exec.known /\ exec.callback # Undefined) =>
       (exec.consulted <=> ExecNeededConfirmation)
  /\ ~levelSet => permissionLevel = "write-only"

\* C2 witness: a read-group tool is being confirmed under read-and-write.
C2_Witness ==
  /\ pc = "confirm"
  /\ exec.consulted
  /\ exec.level = "read-and-write"
  /\ DocumentedGroup(tools[exec.name]) = "read"

\* C3: when the callback is consulted and returns false, execute returns the
\* fixed decline string and the handler is invoked zero times for that call.
C3_DenialSkipsHandler ==
  exec.verdict = "denied" =>
    /\ exec.consulted
    /\ ~exec.res.thrown
    /\ exec.res.value =
         <<"User declined to execute this tool. Adjust your approach or ask the user for guidance.">>
    /\ exec.handlerCalls = 0
    /\ pc # "handler"

\* C3 witness: a call was denied.
C3_Witness ==
  /\ exec.verdict = "denied"
  /\ exec.consulted

\* Tool-role messages after position i that answer the call id.
AnswersTo(msgs, i, id) ==
  {j \in (i + 1)..Len(msgs) : msgs[j].role = "tool" /\ msgs[j].tool_call_id = id}

\* Every tool-call id carried by an assistant message is answered by exactly
\* one later tool-role message.
EveryCallAnswered(msgs) ==
  \A i \in 1..Len(msgs) :
    \A k \in 1..Len(msgs[i].tool_calls) :
      Cardinality(AnswersTo(msgs, i, msgs[i].tool_calls[k].id)) = 1

\* C4: whenever a model call sent by ask is in flight, also the first one of
\* a later ask on the same conversation after a cancellation or an error,
\* every tool-call id carried by an assistant message of the conversation it
\* was sent with is answered by exactly one later tool-role message.
C4_CallsAnsweredWhenModelCalled ==
  (pc = "chat" /\ via = "ask") => EveryCallAnswered(messages)

\* C5: no invocation makes more than maxTurns model calls, and an invocation
\* that returns after responses that all requested a tool has made exactly
\* maxTurns model calls and returns the max-turns response with
\* turns = maxTurns.
C5_TurnBound ==
  /\ chatCalls <= maxTurns
  /\ (pc = "idle" /\ loopResult.kind = "return" /\ allRequested) =>
       /\ chatCalls = maxTurns
       /\ loopResult.turns = maxTurns
       /\ loopResult.response = <<"(max turns reached - stopped for safety)">>

\* C5 witness: two turns that both requested tools, then the max-turns return.
C5_Witness ==
  /\ pc = "idle"
  /\ loopResult.kind = "return"
  /\ allRequested
  /\ maxTurns = 2
  /\ chatCalls = 2

\* Position in the conversation of the assistant message of the current turn.
TurnBase == Len(messages) - Len(turnLog)

\* The loop is inside a turn, or between a finished turn and the next step.
InTurn == pc \in {"tool", "confirm", "handler"} \/ (pc \in {"loop", "chat"} /\ turn > 0)

\* C6: the turn's assistant message carries the calls c1..cN in order and is
\* followed by one tool-role message per executed call, in call order, the
\* i-th with tool_call_id = ci.id and the result of executing ci; a turn that
\* was not interrupted ends with exactly N of them.
C6_ResultsInCallOrder ==
  InTurn =>
    /\ TurnBase >= 1
    /\ messages[TurnBase].role = "assistant"
    /\ Len(messages[TurnBase].tool_calls) = Len(toolCalls)
    /\ \A i \in 1..Len(toolCalls) :
         /\ messages[TurnBase].tool_calls[i].id = toolCalls[i].id
         /\ messages[TurnBase].tool_calls[i].name = toolCalls[i].name
    /\ Len(turnLog) <= Len(toolCalls)
    /\ \A i \in 1..Len(turnLog) :
         /\ messages[TurnBase + i].role = "tool"
         /\ messages[TurnBase + i].tool_call_id = toolCalls[i].id
         /\ messages[TurnBase + i].content = turnLog[i].res.value
         /\ turnLog[i].name = toolCalls[i].name
    /\ pc \in {"tool", "confirm", "handler"} => Len(turnLog) = tcIdx - 1
    /\ pc \in {"loop", "chat"} => Len(turnLog) = Len(toolCalls)

\* C6 witness: a turn with two calls has just been completed.
C6_Witness ==
  /\ pc = "loop"
  /\ turn = 1
  /\ Len(toolCalls) = 2
  /\ Len(turnLog) = 2
  /\ toolCalls[1].name # toolCalls[2].name

\* Position of the last assistant message that carries tool calls (0 if none).
LastCallsIndex(msgs) ==
  LET S == {i \in 1..Len(msgs) : Len(msgs[i].tool_calls) > 0}
  IN IF S = {} THEN 0 ELSE CHOOSE i \in S : \A j \in S : j <= i

\* The invocation ended at the signal check before a tool call.
CancelledBeforeCall ==
  pc = "idle" /\ loopResult.kind = "throw" /\ loopResult.origin = "signal"

\* C7 (state part): after a cancellation seen before call k+1 the conversation
\* ends with the turn's assistant message and exactly the k results of calls
\* 1..k, no later call of the turn was started, and the outcome is a
\* cancellation.
C7_State ==
  CancelledBeforeCall =>
    LET k == tcIdx - 1
        a == LastCallsIndex(messages)
    IN /\ 0 <= k /\ k < Len(toolCalls)
       /\ a >= 1
       /\ Len(messages) = a + k
       /\ \A i \in 1..k :
            /\ messages[a + i].role = "tool"
            /\ messages[a + i].tool_call_id = toolCalls[i].id
       /\ Len(turnLog) = k
       /\ IsAbort(loopResult.err)
       /\ via = "ask" => (askResult.kind = "return" /\ askResult.cancelled)

\* C7 (step part): with the signal aborted at the top of the for-of body the
\* next step ends the invocation there, starting no execute call and leaving
\* the conversation as it is.
C7_Step ==
  (pc = "tool" /\ signal = "aborted") =>
    /\ pc' = "idle"
    /\ loopResult'.kind = "throw"
    /\ loopResult'.origin = "signal"
    /\ exec' = exec
    /\ toolsUsed' = toolsUsed
    /\ messages' = messages

\* C7: cancellation between call k and call k+1 keeps the k results, runs no
\* later handler and ends the run as cancelled.
C7_CancelBetweenCalls == []C7_State /\ [][C7_Step]_vars

\* C7 witness: cancelled after the first of two calls.
C7_Witness ==
  /\ CancelledBeforeCall
  /\ via = "ask"
  /\ Len(toolCalls) = 2
  /\ tcIdx = 2

\* C8: a UserAbortError raised by the callback or the handler leaves execute
\* and runAgentLoop as the very same error, with no tool message for that
\* call; one raised by the model call leaves runAgentLoop as well.
C8_State ==
  /\ IsAbort(exec.raised) =>
       /\ exec.res.thrown
       /\ exec.res.err = exec.raised
       /\ pc = "idle"
       /\ loopResult.kind = "throw"
       /\ loopResult.err = exec.raised
       /\ Len(turnLog) = tcIdx - 1
       /\ LET a == LastCallsIndex(messages)
          IN /\ a >= 1
             /\ Len(messages) - a = tcIdx - 1
  /\ \A i \in 1..Len(turnLog) : ~IsAbort(turnLog[i].raised)

\* C8 (step part): a model call that rejects ends the invocation with that
\* error and appends no tool or assistant tool-call message.
C8_Step ==
  (pc = "chat" /\ loopResult'.kind = "throw") =>
    /\ loopResult'.err \in ChatErrors
    /\ pc' = "idle"
    /\ \A i \in (Len(messages) + 1)..Len(messages') :
         messages'[i].role = "assistant" /\ messages'[i].tool_calls = <<>>

C8_CancellationPropagates == []C8_State /\ [][C8_Step]_vars

\* C8 witness: a handler raised a cancellation.
C8_Witness ==
  /\ IsAbort(exec.raised)
  /\ exec.handlerCalls = 1

\* The error string execute returns for a failure other than a cancellation.
ErrorString(e) ==
  IF e.verdict = "threw"
    THEN <<"Error during confirmation for ", e.name, ": ">> \o e.raised.message
    ELSE <<"Error executing ", e.name, ": ">> \o e.raised.message

\* C9 (state part): a failure other than a cancellation becomes the error
\* string, which is the content of the call's tool message, and a callback
\* failure leaves the handler uninvoked.
C9_State ==
  /\ exec.raised.kind = "Error" =>
       /\ ~exec.res.thrown
       /\ exec.res.value = ErrorString(exec)
       /\ exec.verdict = "threw" => exec.handlerCalls = 0
  /\ pc # "idle" =>
       \A i \in 1..Len(turnLog) :
         turnLog[i].raised.kind = "Error" =>
           /\ messages[TurnBase + i].role = "tool"
           /\ messages[TurnBase + i].content = ErrorString(turnLog[i])

\* C9 (step part): the step in which the failure is raised appends the tool
\* message and leaves the loop running (next call or next turn).
C9_Step ==
  (exec' # exec /\ exec'.raised.kind = "Error") =>
    /\ pc' \in {"tool", "loop"}
    /\ loopResult' = loopResult
    /\ messages' = Append(messages,
                          Message("tool", ErrorString(exec'), <<>>, toolCalls[tcIdx].id))

C9_FailureBecomesToolMessage == []C9_State /\ [][C9_Step]_vars

\* C9 witness: the callback failed and the loop is at the next call.
C9_Witness ==
  /\ exec.raised.kind = "Error"
  /\ exec.verdict = "threw"
  /\ pc = "tool"

\* C10 (step part): execute of an unregistered name returns the string that
\* names it, consults no callback, invokes no handler, raises nothing; the
\* string becomes the call's tool message and the loop goes on.
C10_Step ==
  (pc = "tool" /\ exec' # exec /\ ~exec'.known) =>
    /\ exec'.name = toolCalls[tcIdx].name
    /\ exec'.name \notin DOMAIN tools
    /\ ~exec'.res.thrown
    /\ exec'.res.value = <<"Error: unknown tool '", exec'.name, "'">>
    /\ ~exec'.consulted
    /\ exec'.handlerCalls = 0
    /\ exec'.raised = NoError
    /\ pc' \in {"tool", "loop"}
    /\ loopResult' = loopResult
    /\ messages' = Append(messages,
                          Message("tool", exec'.res.value, <<>>, toolCalls[tcIdx].id))

\* C10 (state part): a call is marked unknown exactly when its name is not
\* registered.
C10_State ==
  exec.name # "-" => (exec.known <=> exec.name \in DOMAIN tools)

C10_UnknownTool == []C10_State /\ [][C10_Step]_vars

\* C10 witness: an unknown tool was answered and the loop is at the next call.
C10_Witness ==
  /\ exec.name = UnknownTool
  /\ ~exec.known
  /\ pc = "tool"
  /\ Len(turnLog) = 1

\* s is a prefix of t.
IsPrefix(s, t) == Len(s) <= Len(t) /\ \A i \in 1..Len(s) : t[i] = s[i]

\* A step in which runAgentLoop starts the execute call of the current tool
\* call (toolsUsed.push, then tools.execute).
CallStarts == pc = "tool" /\ Len(toolsUsed') > Len(toolsUsed)

\* C12: when a cancellation that carries partial text reaches ask, ask
\* appends exactly one assistant message, the text followed by the
\* interruption annotation, leaves the earlier messages as they were, and
\* returns a result with cancelled = true instead of raising.
C12_Step ==
  (via = "ask" /\ pc # "idle" /\ loopResult'.kind = "throw"
     /\ IsAbort(loopResult'.err)
     /\ loopResult'.err.partialContent \notin {Null, <<>>}) =>
    /\ messages' =
         Append(messages,
                [role |-> "assistant",
                 content |-> loopResult'.err.partialContent
                               \o <<"\n\n[Response interrupted by user]">>,
                 tool_calls |-> <<>>, tool_call_id |-> NoId])
    /\ askResult'.kind = "return"
    /\ askResult'.cancelled
    /\ askResult'.response = <<"[Cancelled]">>
    /\ pc' = "idle"

C12_PartialTextSaved == [][C12_Step]_vars

\* C12 witness: ask has returned cancelled and the conversation ends with the
\* annotated partial text.
C12_Witness ==
  /\ pc = "idle"
  /\ via = "ask"
  /\ askResult.cancelled
  /\ loopResult.err.partialContent = <<"partial">>
  /\ messages[Len(messages)].role = "assistant"
  /\ Len(messages) >= 3

\* C13: every step of a running invocation, its exit included, changes the
\* conversation only by appending: the messages present before the step are
\* at the same indexes with the same content after it.
C13_Step == pc # "idle" => IsPrefix(messages, messages')

C13_AppendOnly == [][C13_Step]_vars

\* C13 witness: an invocation ended by a thrown error after it had appended an
\* assistant message and a tool result.
C13_Witness ==
  /\ pc = "idle"
  /\ loopResult.kind = "throw"
  /\ Len(turnLog) >= 1
  /\ messages[Len(messages) - 1].role = "assistant"
  /\ messages[Len(messages)].role = "tool"

\* C14: the turns value runAgentLoop returns is the number of model calls the
\* invocation made, whatever number of tool calls the responses carried.
C14_TurnsCountModelCalls ==
  (pc = "idle" /\ loopResult.kind = "return") => loopResult.turns = chatCalls

\* C14 witness: one model call whose response carried two tool calls.
C14_Witness ==
  /\ pc = "idle"
  /\ loopResult.kind = "return"
  /\ loopResult.turns = 1
  /\ Len(loopResult.toolsUsed) = 2

\* C15: a model response with zero tool calls ends the invocation in that very
\* step: nothing is appended, no tool is executed, and the result carries the
\* content, or "(no response)" when the content is null or empty; a response
\* with tool calls does not end it.
C15_Step ==
  (pc = "chat" /\ loopResult'.kind # "throw" /\ signal' = signal) =>
    /\ (Len(response'.toolCalls) = 0) <=> (pc' = "idle")
    /\ Len(response'.toolCalls) = 0 =>
         /\ loopResult'.kind = "return"
         /\ messages' = messages
         /\ exec' = exec
         /\ toolsUsed' = toolsUsed
         /\ turnLog' = turnLog
         /\ loopResult'.toolsUsed = toolsUsed
         /\ loopResult'.response =
              IF response'.content \in {Null, <<>>}
                THEN <<"(no response)">>
                ELSE response'.content

C15_NoToolCallsReturnsAtOnce == [][C15_Step]_vars

\* C15 witness: a final answer with empty content was returned as the
\* placeholder.
C15_Witness ==
  /\ pc = "idle"
  /\ loopResult.kind = "return"
  /\ response.content = <<>>
  /\ Len(response.toolCalls) = 0
  /\ loopResult.response = NO_RESPONSE

\* Position of the last system or user message: where the running (or last)
\* invocation found the end of the conversation.
RunStart(msgs) ==
  LET S == {i \in 1..Len(msgs) : msgs[i].role \in {"system", "user"}}
  IN CHOOSE i \in S : \A j \in S : j <= i

\* The name of the tool call that carries the id.
NameOfId(msgs, id) ==
  LET P == {<<i, k>> \in (1..Len(msgs)) \X (1..MaxCalls + 1) :
              k <= Len(msgs[i].tool_calls) /\ msgs[i].tool_calls[k].id = id}
      p == CHOOSE q \in P : TRUE
  IN msgs[p[1]].tool_calls[p[2]].name

\* The names of the calls answered by the tool-role messages after position
\* from, in the order of the messages.
RECURSIVE ToolNamesAfter(_, _)
ToolNamesAfter(msgs, from) ==
  IF from >= Len(msgs) THEN <<>>
  ELSE LET m == msgs[from + 1]
       IN (IF m.role = "tool" THEN <<NameOfId(msgs, m.tool_call_id)>> ELSE <<>>)
            \o ToolNamesAfter(msgs, from + 1)

\* The number of assistant messages with tool calls after position from.
ToolTurnsAfter(msgs, from) ==
  Cardinality({i \in (from + 1)..Len(msgs) : Len(msgs[i].tool_calls) > 0})

\* C16: a run that ends with a final answer after k turns that requested
\* tools returns turns = k + 1 and toolsUsed = the names of the requested
\* calls in the order they were processed, repetitions kept, one entry per
\* tool-role message appended.
C16_FinalAnswerResult ==
  (pc = "idle" /\ loopResult.kind = "return" /\ ~allRequested) =>
    LET start == RunStart(messages)
    IN /\ loopResult.turns = ToolTurnsAfter(messages, start) + 1
       /\ loopResult.toolsUsed = ToolNamesAfter(messages, start)

\* C16 witness: the same tool was called twice, then the model answered.
C16_Witness ==
  /\ pc = "idle"
  /\ loopResult.kind = "return"
  /\ ~allRequested
  /\ loopResult.turns = 2
  /\ loopResult.toolsUsed = <<"write_file", "write_file">>

\* C17 (state part): an execute call is in flight exactly while the loop is
\* suspended in its confirmation or its handler, so never during a model call.
C17_State ==
  /\ (exec.await # "none") <=> (pc \in {"confirm", "handler"})
  /\ pc \in {"confirm", "handler"} => Len(turnLog) = tcIdx - 1

\* C17 (step part): the i-th call of a turn is started only when the results
\* of calls 1..i-1 are the last i-1 messages and no call is in flight; the
\* next model call is sent only when the last call's result has been appended.
C17_Step ==
  /\ CallStarts =>
       /\ exec.await = "none"
       /\ Len(turnLog) = tcIdx - 1
       /\ messages[Len(messages) - (tcIdx - 1)].role = "assistant"
       /\ \A j \in 1..(tcIdx - 1) :
            /\ messages[Len(messages) - (tcIdx - 1) + j].role = "tool"
            /\ messages[Len(messages) - (tcIdx - 1) + j].tool_call_id = toolCalls[j].id
  /\ (pc # "chat" /\ pc' = "chat") =>
       /\ exec.await = "none"
       /\ turn > 0 =>
            /\ Len(turnLog) = Len(toolCalls)
            /\ messages[Len(messages)].role = "tool"
            /\ messages[Len(messages)].tool_call_id = toolCalls[Len(toolCalls)].id

C17_OneAtATime == []C17_State /\ [][C17_Step]_vars

\* C17 witness: the second call of a turn is in its handler after the first
\* call's result was appended.
C17_Witness ==
  /\ pc = "handler"
  /\ tcIdx = 2
  /\ Len(turnLog) = 1
  /\ messages[Len(messages)].role = "tool"

\* C18 (state part): a call that consulted the callback runs its handler only
\* if the callback approved, whatever the level has become meanwhile.
C18_State ==
  (exec.consulted /\ exec.handlerCalls > 0) => exec.verdict = "approved"

\* C18 (step part): an execute call reads the level in force when it starts
\* and gates by it; a level change while a call waits for its confirmation
\* leaves that call as it is.
C18_Step ==
  /\ CallStarts =>
       /\ exec'.level = permissionLevel
       /\ (exec'.known /\ exec'.callback # Undefined) =>
            (exec'.consulted
               <=> RequiresConfirmation(DocumentedGroup(tools[exec'.name]),
                                        permissionLevel))
  /\ (pc = "confirm" /\ permissionLevel' # permissionLevel) =>
       /\ exec' = exec
       /\ pc' = "confirm"

C18_LevelReadAtCallStart == []C18_State /\ [][C18_Step]_vars

\* C18 witness: a call gated under write-only was denied after the level had
\* been changed to auto-accept while it was waiting.
C18_Witness ==
  /\ exec.verdict = "denied"
  /\ exec.level = "write-only"
  /\ permissionLevel = "auto-accept"
  /\ exec.handlerCalls = 0

\* C11 (as stated): once the signal has fired while chat is reading, the next
\* pass of the read loop reads no further chunk and ends the call with a
\* cancellation whose partial content is the text assembled so far, not with
\* a response.
C11_Step ==
  (chatPc = "reading" /\ cancelSignal = "aborted") =>
    /\ chatPc' = "done"
    /\ pos' = pos
    /\ chatOutcome'.kind = "throw"
    /\ IsAbort(chatOutcome'.err)
    /\ chatOutcome'.err.partialContent = fullContent

C11_CancelStopsReading == [][C11_Step]_vars

\* The text of the items outside (flag FALSE) or inside (flag TRUE) a marker
\* pair, in order.
RECURSIVE SpanText(_, _, _)
SpanText(its, inside, flag) ==
  IF its = <<>> THEN <<>>
  ELSE IF Head(its) = OPEN_TAG THEN SpanText(Tail(its), TRUE, flag)
  ELSE IF Head(its) = CLOSE_TAG THEN SpanText(Tail(its), FALSE, flag)
  ELSE (IF inside = flag THEN Head(its) ELSE <<>>) \o SpanText(Tail(its), inside, flag)

\* The number of marker pairs of the items.
Pairs(its) == Cardinality({i \in 1..Len(its) : its[i] = OPEN_TAG})

\* C19: however the content is cut into fragments, the text given to onToken
\* as visible is at every moment a prefix of the content's text outside the
\* marker pairs and the text given as reasoning a prefix of its text inside
\* them, so no piece of a marker is ever delivered; once the stream has ended
\* both are complete, and one "[thinking] " marker and one closing "\n" were
\* inserted per pair.
C19_SplitterRoundTrip ==
  items # <<>> =>
    /\ IsPrefix(shown.visible, SpanText(items, FALSE, FALSE))
    /\ IsPrefix(shown.reasoning, SpanText(items, FALSE, TRUE))
    /\ chatPc = "done" =>
         /\ shown.visible = SpanText(items, FALSE, FALSE)
         /\ shown.reasoning = SpanText(items, FALSE, TRUE)
         /\ shown.opened = Pairs(items)
         /\ shown.closed = Pairs(items)
         /\ ~insideThink

\* C19 witness: a fragment ended in the middle of the closing marker: the
\* text before it was delivered as reasoning and the piece of the marker is
\* held back.
C19_Witness ==
  /\ chatPc = "reading"
  /\ items = <<<<"a">>, OPEN_TAG, <<"<">>, CLOSE_TAG>>
  /\ thinkTagBuffer = <<"<", "/", "t">>
  /\ insideThink
  /\ shown.reasoning = <<"<">>
  /\ shown.visible = <<"a">>

\* The read state and buffer chat has after the first n pieces of the body
\* arrived as one chunk.
WholeRead(n) == ReadChunkStep(InitialRead, <<>>, SubSeq(body, 1, n))

\* C20: however the body is cut into chunks, after any number of chunks the
\* accumulated state and the buffered incomplete line are those chat has when
\* the same bytes arrive as one chunk, and the LLMResponse returned is the one
\* returned for the body arriving whole.
C20_ChunkingIndependent ==
  body # <<>> =>
    /\ chatPc = "reading" =>
         /\ CurrentRead = WholeRead(pos).st
         /\ sseBuffer = WholeRead(pos).sseBuffer
    /\ (chatPc = "done" /\ chatOutcome.kind = "return") =>
         chatOutcome.response = BuildResponse(FlushThink(WholeRead(Len(body)).st))

\* C20 witness: a response with content and a tool call was returned for a
\* body of which a line was split across chunks.
C20_Witness ==
  /\ chatPc = "done"
  /\ resumed
  /\ chatOutcome.kind = "return"
  /\ chatOutcome.response.content = <<"a">>
  /\ Len(chatOutcome.response.toolCalls) = 1
  /\ chatOutcome.response.toolCalls[1].arguments = <<"{\"p\":", "1}">>

\* The position of the newline that ends the first "data: [DONE]" line of the
\* body b, or the length of b when it has no such line.
DoneEnd(b) ==
  LET S == {i \in 1..(Len(b) - 2) :
              /\ i = 1 \/ b[i - 1] = NL
              /\ b[i] = DATA_PREFIX
              /\ b[i + 1] = DONE
              /\ b[i + 2] = NL}
  IN IF S = {} THEN Len(b) ELSE Min(S) + 2

\* C21 (as stated): the response chat returns is the one assembled from the
\* records before the first "[DONE]" record: the sentinel adds nothing and
\* no record after it contributes.
C21_DoneEndsStream ==
  (chatPc = "done" /\ chatOutcome.kind = "return") =>
    chatOutcome.response =
      BuildResponse(FlushThink(
        ReadChunkStep(InitialRead, <<>>, SubSeq(body, 1, DoneEnd(body))).st))

\* A line that carries a record the client processes: the prefix, then a
\* JSON payload with a delta.
WellFormedLine(line) ==
  /\ Len(line) = 2
  /\ line[1] = DATA_PREFIX
  /\ line[2].kind = "json"
  /\ line[2].delta

\* The lines of `lines` that carry a well-formed record, in order.
RECURSIVE WellFormedOnly(_)
WellFormedOnly(lines) ==
  IF lines = <<>> THEN <<>>
  ELSE (IF WellFormedLine(Head(lines)) THEN <<Head(lines)>> ELSE <<>>)
         \o WellFormedOnly(Tail(lines))

\* The complete lines among the first n pieces of the body.
CompleteLines(n) ==
  LET lines == Split(SubSeq(body, 1, n))
  IN SubSeq(lines, 1, Len(lines) - 1)

\* The read state after the well-formed records alone, one after the other.
RECURSIVE RecordsOnly(_, _)
RecordsOnly(st, lines) ==
  IF lines = <<>> THEN st
  ELSE LET chunk == Head(lines)[2]
           s1 == IF chunk.finish # "" THEN [st EXCEPT !.finishReason = chunk.finish]
                 ELSE st
           s2 == ContentDelta(s1, chunk.content)
       IN RecordsOnly([s2 EXCEPT !.toolCallAccum = AccumCalls(@, chunk.calls)],
                      Tail(lines))

RECURSIVE DeltasOf(_)
DeltasOf(lines) ==
  IF lines = <<>> THEN <<>>
  ELSE (IF WellFormedLine(Head(lines)) THEN Head(lines)[2].calls ELSE <<>>)
         \o DeltasOf(Tail(lines))

\* The index a delta counts for: 0 when it carries none.
IndexOfDelta(tc) == IF tc.index = -1 THEN 0 ELSE tc.index

\* The name (field "name") or arguments (field "arguments") fragments of the
\* deltas for index i, concatenated in arrival order.
RECURSIVE Fragments(_, _, _)
Fragments(ds, i, field) ==
  IF ds = <<>> THEN <<>>
  ELSE (IF IndexOfDelta(Head(ds)) = i
          THEN (IF field = "name" THEN Head(ds).name ELSE Head(ds).arguments)
          ELSE <<>>)
         \o Fragments(Tail(ds), i, field)

\* The id of the latest delta for index i that carries one, else the empty id.
LatestId(ds, i) ==
  LET S == {k \in 1..Len(ds) : IndexOfDelta(ds[k]) = i /\ ds[k].id # <<>>}
  IN IF S = {} THEN <<>> ELSE ds[CHOOSE k \in S : \A j \in S : j <= k].id

\* The indexes seen, as the ascending list of them.
RECURSIVE Ascending(_)
Ascending(S) ==
  IF S = {} THEN <<>>
  ELSE LET lo == CHOOSE x \in S : \A y \in S : x <= y
       IN <<lo>> \o Ascending(S \ {lo})

\* C23: the returned toolCalls list has one entry per distinct index seen in
\* the stream, in ascending index order whatever the order of arrival; the
\* entry for an index has the name fragments and the arguments fragments for
\* that index concatenated in arrival order (the arguments parsed, or the
\* empty map when they do not parse) and the id of the latest delta for that
\* index that carried one.
C23_CallsPerIndexAscending ==
  (chatPc = "done" /\ chatOutcome.kind = "return") =>
    LET ds == DeltasOf(CompleteLines(Len(body)))
        order == Ascending({IndexOfDelta(ds[k]) : k \in 1..Len(ds)})
        calls == chatOutcome.response.toolCalls
    IN /\ Len(calls) = Len(order)
       /\ \A k \in 1..Len(order) :
            /\ calls[k].name = Fragments(ds, order[k], "name")
            /\ calls[k].id = LatestId(ds, order[k])
            /\ calls[k].arguments =
                 (IF Fragments(ds, order[k], "arguments") = <<"{\"p\":", "1}">>
                    THEN <<"{\"p\":", "1}">> ELSE <<"{}">>)

\* C23 witness: the delta for index 1 arrived before the delta for index 0,
\* index 1 got a second name fragment and a second arguments fragment, and
\* the list returned has the entry for index 0 first.
C23_Witness ==
  /\ chatPc = "done"
  /\ Len(chatOutcome.response.toolCalls) = 2
  /\ chatOutcome.response.toolCalls[1].name = <<"shell">>
  /\ chatOutcome.response.toolCalls[1].id = <<"c1">>
  /\ chatOutcome.response.toolCalls[2].name = <<"read", "_file">>
  /\ chatOutcome.response.toolCalls[2].id = <<"c2">>
  /\ chatOutcome.response.toolCalls[2].arguments = <<"{\"p\":", "1}">>
  /\ body[2].calls[1].index = 1

\* The arguments map the call for index i is delivered with: the parsed
\* arguments text when it is valid JSON, else the empty map.
DeliveredArguments(ds, i) ==
  IF Fragments(ds, i, "arguments") = <<"{\"p\":", "1}">>
    THEN <<"{\"p\":", "1}">> ELSE <<"{}">>

\* C24: neither chat nor the loop raises because of arguments; every tool
\* call of the response is passed to ToolRegistry.execute with the arguments
\* map chat delivered, the empty map when the accumulated text (the empty
\* text included) is not valid JSON; the handler of a registered tool runs
\* with it and its tool message is appended.  The only error that leaves the
\* loop is a cancellation raised by a handler.
C24_InvalidArgumentsEmptyMap ==
  LET ds == DeltasOf(CompleteLines(Len(body)))
      order == Ascending({IndexOfDelta(ds[k]) : k \in 1..Len(ds)})
  IN /\ chatOutcome.kind # "throw"
     /\ loopResult.kind = "throw" =>
          (loopResult.origin = "execute" /\ IsAbort(exec.raised))
     /\ \A k \in 1..Len(turnLog) :
          /\ turnLog[k].args = DeliveredArguments(ds, order[k])
          /\ turnLog[k].known => turnLog[k].handlerCalls = 1
          /\ \E m \in 1..Len(messages) :
               /\ messages[m].role = "tool"
               /\ messages[m].content = turnLog[k].res.value
     /\ (pc \in {"handler"} /\ tcIdx > 0) =>
          exec.args = DeliveredArguments(ds, order[tcIdx])
     /\ (pc = "idle" /\ loopResult.kind = "return") =>
          Len(turnLog) = Len(order)

\* C24 witness: the arguments text of the call to shell stayed the partial
\* text of one fragment and that of the second call the empty text; both
\* were passed to execute with the empty map, the handler of shell ran, and
\* the loop returned.
C24_Witness ==
  /\ pc = "idle"
  /\ loopResult.kind = "return"
  /\ Len(turnLog) = 2
  /\ turnLog[1].name = "shell"
  /\ turnLog[1].args = <<"{}">>
  /\ turnLog[1].handlerCalls = 1
  /\ turnLog[2].args = <<"{}">>
  /\ toolCallAccum[0].arguments = <<"{\"p\":">>
  /\ toolCallAccum[1].arguments = <<>>

\* The read state chat has after the first n pieces of the body when it was
\* called with (callback TRUE) or without (FALSE) an onToken callback.
ReadWith(callback, n) ==
  ReadChunkStep(InitialReadOf(callback), <<>>, SubSeq(body, 1, n)).st

\* C25: with or without an onToken callback the content, finish reason and
\* tool calls accumulated are at every moment the same, and the LLMResponse
\* returned is the same; without a callback nothing is displayed and the
\* reasoning splitter is not run.
C25_CallbackOnlyObserves ==
  body # <<>> =>
    /\ \A cb \in BOOLEAN :
         /\ fullContent = ReadWith(cb, pos).fullContent
         /\ finishReason = ReadWith(cb, pos).finishReason
         /\ toolCallAccum = ReadWith(cb, pos).toolCallAccum
    /\ ~onToken => (shown = NoTokens /\ thinkTagBuffer = <<>> /\ ~insideThink)
    /\ (chatPc = "done" /\ chatOutcome.kind = "return") =>
         \A cb \in BOOLEAN :
           chatOutcome.response = BuildResponse(FlushThink(ReadWith(cb, Len(body))))

\* C25 witness: chat was called without a callback on a stream with visible
\* text and a reasoning block, and returned both.
C25_Witness ==
  /\ chatPc = "done"
  /\ ~onToken
  /\ chatOutcome.response.thinking = <<"r">>
  /\ chatOutcome.response.content = <<"a">>
  /\ shown = NoTokens

\* The errors of ChatErrors that are transport errors, not cancellations.
TransportErrors == {err \in ChatErrors : ~IsAbort(err)}

\* C26, one step: when a model call is pending, a step that ends the
\* invocation with a transport error makes no further model call, leaves the
\* conversation as it was when the call was sent, and hands the error of the
\* model call unchanged to the caller of runAgentLoop; ask passes it on
\* unchanged, as an error and not as a cancelled result.
C26_Step ==
  (pc = "chat" /\ pc' = "idle" /\ loopResult'.kind = "throw"
     /\ ~IsAbort(loopResult'.err)) =>
    /\ loopResult'.err \in TransportErrors
    /\ loopResult'.origin = "chat"
    /\ chatCalls' = chatCalls
    /\ chats' = chats
    /\ messages' = messages
    /\ via = "ask" =>
         /\ askResult'.kind = "throw"
         /\ askResult'.err = loopResult'.err
         /\ ~askResult'.cancelled

\* C26: the model is called at most once per turn, a pending model call is
\* the one of the current turn, and C26_Step holds of every step.
C26_TransportErrorPropagates ==
  /\ [](chatCalls <= turn + 1 /\ (pc = "chat" => chatCalls = turn + 1))
  /\ [][C26_Step]_vars

\* C26 witness: in a REPL session the model call of the second turn failed
\* with a transport error; ask ended with that error, the conversation ends
\* with the tool message of the first turn.
C26_Witness ==
  /\ via = "ask"
  /\ pc = "idle"
  /\ turn = 1
  /\ chatCalls = 2
  /\ askResult.kind = "throw"
  /\ askResult.err = Error(<<"LLM request failed (500): body">>)
  /\ ~askResult.cancelled
  /\ messages[Len(messages)].role = "tool"

\* C27 (as stated): a failure of the log callback never ends the invocation:
\* no invocation ends with an error that came out of a log call.
C27_LogFailureIgnored ==
  loopResult.kind = "throw" => loopResult.origin # "log"

\* The names of the register calls of `log` in the order in which each was
\* first registered.
RECURSIVE FirstRegistered(_)
FirstRegistered(log) ==
  IF log = <<>> THEN <<>>
  ELSE LET before == FirstRegistered(SubSeq(log, 1, Len(log) - 1))
           name == log[Len(log)].name
       IN IF \E i \in 1..Len(before) : before[i] = name THEN before
          ELSE Append(before, name)

\* The latest register call of `log` under the name.
LatestRegistration(log, name) ==
  log[CHOOSE k \in 1..Len(log) :
        /\ log[k].name = name
        /\ \A j \in (k + 1)..Len(log) : log[j].name # name]

\* C28, the list: what getSchemas returned has one entry per name registered
\* before the call, in the order in which the names were first registered,
\* each with the name, description and parameters of the latest registration
\* under that name.
C28_State ==
  schemasAt >= 0 =>
    LET log == SubSeq(registerLog, 1, schemasAt)
        order == FirstRegistered(log)
    IN /\ Len(lastSchemas) = Len(order)
       /\ \A i \in 1..Len(order) :
            /\ lastSchemas[i].type = "function"
            /\ lastSchemas[i].function =
                 [name |-> order[i],
                  description |-> LatestRegistration(log, order[i]).description,
                  parameters |-> LatestRegistration(log, order[i]).parameters]

\* C28, the call: a step that is not a register call leaves the registry as
\* it is, and when no register call was made since the last getSchemas call
\* the list returned is the same again.
C28_Step ==
  registerLog' = registerLog =>
    /\ toolsMap' = toolsMap
    /\ schemasAt = Len(registerLog) => lastSchemas' = lastSchemas

C28_SchemasStable == []C28_State /\ [][C28_Step]_vars

\* C28 witness: alpha, beta and alpha again with another description were
\* registered; getSchemas returned alpha first, with the later description,
\* then beta.
C28_Witness ==
  /\ schemasAt = 3
  /\ registerLog[1].name = "alpha" /\ registerLog[1].description = "d1"
  /\ registerLog[2].name = "beta"
  /\ registerLog[3].name = "alpha" /\ registerLog[3].description = "d2"
  /\ Len(lastSchemas) = 2
  /\ lastSchemas[1].function.name = "alpha"
  /\ lastSchemas[1].function.description = "d2"
  /\ lastSchemas[2].function.name = "beta"

\* C29: the line written for an entry holds no newline character, and
\* decoding it gives the entry back, whatever mix of backslashes, newlines
\* and letters n the entry is.
C29_HistoryRoundTrip ==
  /\ histPc \in {"written", "loaded"} =>
       /\ \A i \in 1..Len(fileLine) : fileLine[i] # "\n"
       /\ decodeLine(fileLine) = entry
  /\ histPc = "loaded" => decoded = entry

\* C29 witness: an entry with a literal backslash followed by n, then a
\* newline and a backslash, was written and read back.
C29_Witness ==
  /\ histPc = "loaded"
  /\ entry = <<"\\", "n", "\n", "\\">>
  /\ fileLine = <<"\\", "\\", "n", "\\", "n", "\\", "\\">>
  /\ decoded = entry

\* The positions at which old matches in content, found from left to right,
\* each match starting after the end of the one before.
RECURSIVE MatchesFrom(_, _, _)
MatchesFrom(content, old, from) ==
  LET S == {i \in from..(Len(content) - Len(old) + 1) :
              \A k \in 1..Len(old) : content[i + k - 1] = old[k]}
  IN IF S = {} THEN {}
     ELSE LET i == CHOOSE x \in S : \A y \in S : x <= y
          IN {i} \cup MatchesFrom(content, old, i + Len(old))

\* The content from position p on with the match at each of the positions
\* replaced by new and every other character kept.
RECURSIVE ReplacedFrom(_, _, _, _, _)
ReplacedFrom(content, positions, width, new, p) ==
  IF p > Len(content) THEN <<>>
  ELSE IF p \in positions
    THEN new \o ReplacedFrom(content, positions, width, new, p + width)
  ELSE <<content[p]>> \o ReplacedFrom(content, positions, width, new, p + 1)

\* C30: applyEdit succeeds exactly when old_string is not empty, differs from
\* new_string, occurs in the content, and occurs once or replace_all is true,
\* the occurrences being the matches found from left to right, each after
\* the one before; on success every occurrence is replaced by new_string, the
\* other characters are kept and replacements is the number of occurrences;
\* otherwise the result is an error without content.
C30_ApplyEdit ==
  editResult # NoEdit =>
    LET p == editParams
        positions == IF p.oldString = <<>> THEN {}
                     ELSE MatchesFrom(p.content, p.oldString, 1)
        n == Cardinality(positions)
        succeeds == /\ p.oldString # <<>>
                    /\ p.oldString # p.newString
                    /\ n >= 1
                    /\ n = 1 \/ p.replaceAll = "true"
    IN /\ editResult.ok = succeeds
       /\ succeeds =>
            /\ editResult.content =
                 ReplacedFrom(p.content, positions, Len(p.oldString), p.newString, 1)
            /\ editResult.replacements = n
       /\ ~succeeds =>
            /\ editResult.content = Absent
            /\ editResult.error # ""

\* C30 witness: with replace_all the three occurrences of old_string were
\* replaced and the character between them kept.
C30_Witness ==
  /\ editParams.content = <<"a", "b", "a", "a">>
  /\ editParams.oldString = <<"a">>
  /\ editParams.newString = <<"b", "b">>
  /\ editParams.replaceAll = "true"
  /\ editResult.ok
  /\ editResult.replacements = 3
  /\ editResult.content = <<"b", "b", "b", "b", "b", "b", "b">>

\* ---------------------------------------------------------------- C31
\* The step the last moveSelection call made, counted from its state before.
MovedFrom(before, direction) ==
  LET n == Len(before.filtered)
      i == before.selectedIndex
  IN IF n = 0 THEN i
     ELSE IF direction = "down" THEN (IF i = n - 1 THEN 0 ELSE i + 1)
     ELSE (IF i = 0 THEN n - 1 ELSE i - 1)

\* C31: after any sequence of updateFilter and moveSelection calls on a state
\* made by createAutocomplete, selectedIndex is 0 when filtered is empty and
\* otherwise 0 <= selectedIndex < filtered.length; getSelectedItem returns
\* null exactly when filtered is empty and otherwise the item at
\* selectedIndex; moveSelection goes one item down or up and wraps from the
\* last item to the first and from the first to the last.
C31_SelectionInRange ==
  acRef # <<>> =>
    LET st == acRef[1]
        n == Len(st.filtered)
    IN /\ n = 0 => st.selectedIndex = 0
       /\ n > 0 => st.selectedIndex \in 0..(n - 1)
       /\ (getSelectedItem(st) = <<>>) <=> (n = 0)
       /\ n > 0 => getSelectedItem(st) = <<st.filtered[st.selectedIndex + 1]>>
       /\ acCall.op = "moveSelection" =>
            /\ st.filtered = acCall.before[1].filtered
            /\ st.selectedIndex = MovedFrom(acCall.before[1], acCall.arg[1])

\* C31 witness: the highlight was on the third item when a filter left two
\* items, and updateFilter moved it to the second.
C31_Witness ==
  /\ acRef # <<>>
  /\ acCall.op = "updateFilter"
  /\ acCall.before[1].selectedIndex = 2
  /\ Len(acRef[1].filtered) = 2
  /\ acRef[1].selectedIndex = 1

\* ---------------------------------------------------------------- C32
\* A tool handler is started by this step.
HandlerStarts == pc # "handler" /\ pc' = "handler"

\* C32 as claimed: no step starts a tool handler once the signal has fired.
C32_NoHandlerAfterSignal ==
  [][(signal = "aborted" /\ pc # "idle") => ~HandlerStarts]_vars

\* C32 as amended: once the signal has fired no step begins an execute call,
\* and the only handler that can still start is the one of the call whose
\* confirmation callback was pending when the signal fired and then approves.
C32_Step ==
  /\ (signal = "aborted" /\ pc = "tool") => (exec' = exec /\ pc' = "idle")
  /\ (signal = "aborted" /\ pc # "idle" /\ HandlerStarts) =>
       /\ pc = "confirm"
       /\ exec'.name = exec.name
       /\ exec'.verdict = "approved"

C32_NoExecuteAfterSignal == [][C32_Step]_vars

\* C32 witness: the signal fired while the confirmation callback of a call
\* was pending, the callback approved, and the handler of that call runs.
C32_Witness ==
  /\ signal = "aborted"
  /\ pc = "handler"
  /\ exec.consulted
  /\ exec.verdict = "approved"

\* ---------------------------------------------------------------- C33
\* C33: a run during which the cancellation signal fired, and whose model
\* calls and handlers all returned, ends with the cancellation outcome:
\* runAgentLoop does not return a final answer or the max-turns result.
C33_SignalEndsRunCancelled ==
  (pc = "idle" /\ runs > 0 /\ signal = "aborted") => loopResult.kind # "return"

\* ---------------------------------------------------------------- C34
\* The ask that just returned ended with a final answer of the model.
EndedWithAnswer ==
  /\ pc = "idle"
  /\ via = "ask"
  /\ askResult.kind = "return"
  /\ ~askResult.cancelled
  /\ chatCalls > 0
  /\ Len(response.toolCalls) = 0

NoAdjacentUsers(msgs) ==
  \A i \in 1..(Len(msgs) - 1) : ~(msgs[i].role = "user" /\ msgs[i + 1].role = "user")

\* C34: in a REPL session an ask that ends with a final answer leaves the
\* answer as the last message of the shared conversation, an assistant
\* message, and at every model call of the session the conversation has no
\* two adjacent user messages.
C34_AnswerKeptInConversation ==
  /\ EndedWithAnswer =>
       /\ messages[Len(messages)].role = "assistant"
       /\ messages[Len(messages)].content = askResult.response
  /\ (pc = "chat" /\ via = "ask") => NoAdjacentUsers(messages)

\* ---------------------------------------------------------------- C35
\* text occurs somewhere in content.
OccursIn(content, text) == IndexOf(content, text, 1) # 0

\* C35: when chat returns, the content of the LLMResponse holds neither
\* marker, and the text onToken was given as reasoning is not part of it;
\* also when a reasoning span is never closed or the stream has several.
C35_ReasoningKeptOutOfContent ==
  (chatPc = "done" /\ chatOutcome.kind = "return" /\ onToken) =>
    LET content == chatOutcome.response.content
    IN /\ ~OccursIn(content, OPEN_TAG)
       /\ ~OccursIn(content, CLOSE_TAG)
       /\ shown.reasoning # <<>> => ~OccursIn(content, shown.reasoning)

\* ---------------------------------------------------------------- C36
\* C36: the answer 'd' to a prompt of ask's callback approves that call and
\* sets skipConfirmation; while it is set every gated call of the same ask is
\* approved by the callback with no key read; it stays set until the
\* invocation ends, every ask starts with it unset, so that its first gated
\* call prompts again; and neither setting it nor a call approved under it
\* changes the registry's permission level.
C36_Step ==
  /\ (~skipConfirmation /\ skipConfirmation') =>
       /\ pc = "confirm" /\ exec.callback = "ask"
       /\ pc' = "handler" /\ exec'.verdict = "approved" /\ exec'.key = "d"
       /\ permissionLevel' = permissionLevel
  /\ (skipConfirmation /\ pc = "confirm") =>
       /\ exec.callback = "ask"
       /\ pc' = "handler" /\ exec'.verdict = "approved" /\ exec'.key = "-"
       /\ skipConfirmation'
       /\ permissionLevel' = permissionLevel
  /\ (skipConfirmation /\ pc # "idle") => (skipConfirmation' /\ permissionLevel' = permissionLevel)
  /\ (pc = "idle" /\ pc' # "idle" /\ via' = "ask") => ~skipConfirmation'

C36_DontAskAgain == [][C36_Step]_vars

\* C36 witness: in one turn the first call was approved at the prompt with
\* 'd' and a later gated call is running, approved with the flag set.
C36_Witness ==
  /\ via = "ask"
  /\ pc = "handler"
  /\ skipConfirmation
  /\ Len(turnLog) >= 1
  /\ turnLog[1].key = "d" /\ turnLog[1].verdict = "approved"
  /\ exec.consulted /\ exec.key = "-" /\ exec.verdict = "approved"

\* ---------------------------------------------------------------- C37
\* C37: while ask runs, the Escape key at a pending prompt fires the signal
\* and resolves the prompt as a denial in one step: the prompted call returns
\* the denial without its handler being invoked; and once the signal has
\* fired no prompt is opened and no handler is started in that invocation.
C37_Step ==
  /\ (via = "ask" /\ pc = "confirm" /\ signal # "aborted" /\ signal' = "aborted") =>
       /\ exec'.key = "escape"
       /\ exec'.verdict = "denied"
       /\ exec'.handlerCalls = 0
       /\ exec'.res = Returned(DENIAL_MESSAGE)
       /\ pc' \in {"tool", "loop"}
  /\ (via = "ask" /\ signal = "aborted" /\ pc # "idle") =>
       /\ ~(pc # "handler" /\ pc' = "handler")
       /\ ~(pc # "confirm" /\ pc' = "confirm")

C37_State ==
  via = "ask" =>
    /\ (pc = "confirm" => signal # "aborted")
    /\ \A i \in 1..Len(turnLog) :
         turnLog[i].key = "escape" => (i = Len(turnLog) /\ turnLog[i].handlerCalls = 0)

C37_EscapeAtPromptDenies == []C37_State /\ [][C37_Step]_vars

\* C37 witness: Escape was pressed at the prompt of the first of two calls;
\* the call was denied and the invocation ended at the check before the
\* second call.
C37_Witness ==
  /\ CancelledBeforeCall
  /\ via = "ask"
  /\ Len(toolCalls) = 2
  /\ Len(turnLog) = 1
  /\ turnLog[1].key = "escape"
  /\ turnLog[1].verdict = "denied"
  /\ messages[Len(messages)].content = DENIAL_MESSAGE

\* ---------------------------------------------------------------- C38
\* C38: after every key event handled by readMultiLineInput there is at
\* least one line, 0 <= row < lines.length, 0 <= col <= lines[row].length,
\* and 0 <= hState.index <= hState.entries.length.
C38_EditStateInRange ==
  inputPc # "off" =>
    /\ Len(cursor.lines) >= 1
    /\ cursor.row \in 0..(Len(cursor.lines) - 1)
    /\ cursor.col \in 0..Len(cursor.lines[cursor.row + 1])
    /\ hState.index \in 0..Len(hState.entries)

\* C38 witness: two presses of the up arrow from the empty prompt loaded the
\* oldest history entry, which has two lines; the cursor is at the end of
\* its first line.
C38_Witness ==
  /\ inputPc = "reading"
  /\ keyCount = 2
  /\ hState.index = 0
  /\ cursor = Cursor(<<<<"h">>, <<"h">>>>, 0, 1)

\* ---------------------------------------------------------------- C39
\* C39: throughout a REPL session the conversation is not empty and starts
\* with a system message; while an invocation runs the conversation only
\* grows at its end; /clear leaves exactly the message at index 0; a new turn
\* replaces index 0 by the freshly built system prompt, keeps every other
\* message and appends the input.
C39_State ==
  /\ Len(messages) >= 1
  /\ messages[1].role = "system"

C39_Step ==
  /\ pc # "idle" =>
       /\ Len(messages') >= Len(messages)
       /\ SubSeq(messages', 1, Len(messages)) = messages
  /\ (pc = "idle" /\ pc' = "idle") =>
       (messages' = messages \/ messages' = <<messages[1]>>)
  /\ (pc = "idle" /\ pc' # "idle") =>
       /\ Len(messages') = Len(messages) + 1
       /\ messages'[1] \in FreshPrompts
       /\ \A i \in 2..Len(messages) : messages'[i] = messages[i]
       /\ messages'[Len(messages')] = UserMessage

C39_SystemMessageFirst == []C39_State /\ [][C39_Step]_vars

\* C39 witness: after a turn that was given a rebuilt prompt, /clear has left
\* that prompt as the only message.
C39_Witness ==
  /\ pc = "idle"
  /\ runs >= 1
  /\ messages # <<SystemMessage>>
  /\ Len(messages) = 1

====
